---- MODULE Spec2Model ----
(***************************************************************************)
(* A model of the order-book reflex trainer's price simulator:             *)
(*   RegimeScheduler  (RegimeScheduler.ts)                                  *)
(*   BreakoutNotifier (BreakoutNotifier.ts)                                 *)
(*   QuoteModel / QuoteGenerator (QuoteModel.ts)                            *)
(*   PriceModel       (PriceModel.ts)                                       *)
(*                                                                         *)
(* Units.  The program computes with IEEE doubles; the model computes with *)
(* integers in fixed units:                                                *)
(*   time       1 tick  = 1/2 second   (2 s = 4 ticks, 1 s throttle = 2)    *)
(*   price      1 unit  = 0.001 currency (one cent = 10, 0.005 = 5)         *)
(*   magnitude  1 step  = 0.5 percent  (1.0 % = 2)                          *)
(* Math.random() is a draw r: r/RandomSteps, or 1 - 2^-52 (r = RandomSteps) *)
(***************************************************************************)
EXTENDS Integers, Sequences, FiniteSets, TLC

VARIABLES
  \* RegimeScheduler
  timeline,        \* RegimeSegment[]
  schedScenario,   \* MarketScenario | null   (<<>> is null, <<s>> is s)
  breakoutEvent,   \* BreakoutEvent | null    (<<>> is null, <<e>> is e)
  lookup,          \* the last getCurrentRegime call: <<>> or <<[t, result]>>
  \* BreakoutNotifier
  notifier,        \* lastWarningTime, lastProgressTime, breakoutInProgress, breakoutStartPrice
  emitted,         \* the events emitted by the last operation, in order
  listeners,       \* Map<BreakoutEventType, EventCallback[]>
  \* QuoteGenerator and its QuoteModel
  quoteModel,      \* transition, ticksPerRegime, secondsPerRegime
  generator,       \* the running bid and ask
  \* PriceModel
  priceModel,      \* scenario, window, buffer, pivot, best prices, timing, started flag
  \* the clock
  now,             \* performance.now() / 1000, in ticks
  \* observation
  lastOp,          \* the operation that produced this state
  call,            \* the last call of a notifier operation or of a reset: its
                   \* arguments, and the notifier, resetPending and listeners before
                   \* it; NoCall after an update()
  startEvents,     \* start events emitted since the last completion event or reset()
  warnHist,        \* the times of the last two warning events; reset() seen since the last
  progressHist,    \* the last progress event against the one before it, and the price of
                   \* the last start event
  resetPending,    \* reset() was called and notifyBreakoutStart was not called since
  dispatch,        \* the callbacks the last operation invoked, in order, the errors it
                   \* logged and whether a throw reached its caller
  step,            \* the last update(): its ticks, whether it and the one before it
                   \* were in a breakout, and what it asked of the notifier
  pushed,          \* the bid and ask of the entries pushed into the buffer since the
                   \* construction or the last reset, the last 2*window+1 of them
  sample,          \* the last sampleTick or stepSecond called on its own, if no
                   \* sampleNbUpdates was called since: its arguments, the generator
                   \* before it, what it returned and whether the generator has
                   \* made a step
  poisson,         \* the loop of the last sampleNbUpdates called on its own, if no
                   \* other call was made since: the regime, exp(-lambda), k and p
  \* App
  app              \* xp, isPaused, priceModel (<<>> is null), the loadModel calls
                   \* that have not settled, and how many were started

schedVars == <<timeline, schedScenario, breakoutEvent, lookup>>
notifierVars ==
  <<notifier, emitted, listeners, call, startEvents, warnHist, progressHist, resetPending,
    dispatch>>
engineVars == <<quoteModel, generator, priceModel, step, pushed, sample, poisson>>
vars == <<schedVars, notifierVars, engineVars, now, lastOp, app>>

\* ------------------------------------------------------------------ bounds
\* Math.random() takes the values r/RandomSteps, r in 0..RandomSteps-1, and the
\* largest double below 1.
RandomSteps == 3
\* poissonSample tracks its product p among PLevels + 1 thresholds.
PLevels == 3
\* Time windows of the generated scenarios lie on the grid 0, 8, .., 8*MaxGrid ticks.
MaxGrid == 3
\* getCurrentRegime is looked up at elapsed times up to duration + MaxOver ticks.
MaxOver == 3
\* The notifier is driven while the clock reads at most MaxNotifierNow ticks.
MaxNotifierNow == 5
\* poissonSample returns at most MaxUpdates.
MaxUpdates == 2
\* The engine runs while the clock reads at most MaxNow ticks with the empty data
\* file, and at most MaxMovingNow ticks with the moving one.
MaxNow == 36
MaxMovingNow == 2
\* At most MaxListeners registrations are held for the start and completion
\* events together.
MaxListeners == 3
\* At most MaxAny onAny() registrations are outstanding.
MaxAny == 1
\* The App calls loadModel at most MaxLoads times, and the game loop steps a
\* PriceModel at most MaxFrames times.
MaxLoads == 3
MaxFrames == 2

\* ------------------------------------------------------------------ helpers
Min(a, b) == IF a < b THEN a ELSE b
Max(a, b) == IF a > b THEN a ELSE b
Abs(x) == IF x < 0 THEN 0 - x ELSE x
Last(s) == s[Len(s)]

\* floor(log2(x)) of a double x >= 1, its binary exponent.
RECURSIVE exponentOf(_)
exponentOf(x) == IF x < 2 THEN 0 ELSE 1 + exponentOf(x \div 2)

\* Whether minTime + u * (maxTime - minTime) is maxTime in IEEE double arithmetic
\* for u = 1 - 2^-52, the largest value of Math.random().  With d = maxTime -
\* minTime in binade e, the product rounds to d less one or two units of d's last
\* place (one when d < 1.5 * 2^e); the sum lies in the binade E of the doubles just
\* below maxTime and rounds up to maxTime (ties to even) when that binade is
\* coarser by two or more, or by one with the product one unit short.
roundsToMax(minTime, maxTime) ==
  LET d == maxTime - minTime
      e == exponentOf(d)
      E == exponentOf(maxTime - 1)
  IN /\ d > 0
     /\ \/ E >= e + 2
        \/ E = e + 1 /\ 2 * d < 3 * (2 ^ e)

\* minTime + Math.random() * (maxTime - minTime), for the draw r; onto the grid of
\* ticks by Math.floor.
randomIn(minTime, maxTime, r) ==
  IF r < RandomSteps
  THEN minTime + ((r * (maxTime - minTime)) \div RandomSteps)
  ELSE IF roundsToMax(minTime, maxTime) THEN maxTime
       ELSE IF maxTime > minTime THEN maxTime - 1 ELSE minTime

\* The draws: r < RandomSteps stands for r/RandomSteps and r = RandomSteps for
\* 1 - 2^-52.
Draws == 0 .. RandomSteps

\* ------------------------------------------------------------------ MarketScenario
NoAdvanced == [fakeBreakouts |-> <<>>]

createBullishBreakout ==
  [startPrice |-> 100000, duration |-> 120,
   breakout |-> [type |-> "bullish", timeWindow |-> <<40, 80>>, magnitude |-> 2,
                 speed |-> "gradual", preWarning |-> 10, notification |-> TRUE],
   spread |-> [base |-> 20],
   advanced |-> NoAdvanced]

createBearishBreakout ==
  [startPrice |-> 100000, duration |-> 120,
   breakout |-> [type |-> "bearish", timeWindow |-> <<40, 80>>, magnitude |-> -2,
                 speed |-> "gradual", preWarning |-> 10, notification |-> TRUE],
   spread |-> [base |-> 20],
   advanced |-> NoAdvanced]

createFakeBreakoutScenario ==
  [startPrice |-> 100000, duration |-> 180,
   breakout |-> [type |-> "bullish", timeWindow |-> <<100, 140>>, magnitude |-> 2,
                 speed |-> "gradual", preWarning |-> 10, notification |-> TRUE],
   spread |-> [base |-> 20],
   advanced |-> [fakeBreakouts |->
                   << [timeWindow |-> <<30, 50>>, magnitude |-> 1, reversalSpeed |-> 10] >>]]

createRangingScenario ==
  [startPrice |-> 100000, duration |-> 120,
   breakout |-> [type |-> "none", timeWindow |-> <<0, 0>>, magnitude |-> 0,
                 speed |-> "gradual", preWarning |-> 0, notification |-> FALSE],
   spread |-> [base |-> 20],
   advanced |-> NoAdvanced]

\* ------------------------------------------------------------------ RegimeScheduler
\* A duration that grows with the magnitude without an upper limit.
calculateBreakoutDuration_unlimited(speed, magnitudePercent) ==
  CASE speed = "instant" -> 4
    [] speed = "gradual" -> Max(16, 20 + magnitudePercent * 5)
    [] speed = "accelerating" -> Max(20, 30 + magnitudePercent * 8)
    [] OTHER -> 30

calculateBreakoutDuration(speed, magnitudePercent) ==
  CASE speed = "instant" -> 4
    [] speed = "gradual" -> Max(16, Min(60, 20 + magnitudePercent * 5))
    [] speed = "accelerating" -> Max(20, Min(80, 30 + magnitudePercent * 8))
    [] OTHER -> 30

\* startPrice * (1 + magnitude / 100)
targetPriceOf(startPrice, magnitude) == startPrice + ((startPrice * magnitude) \div 200)

\* A breakout end that is not cut at the scenario's duration.
breakoutEndTimeOf_unclamped(breakoutStartTime, breakoutDuration, duration) ==
  breakoutStartTime + breakoutDuration

\* Math.min(breakoutStartTime + breakoutDuration, duration)
breakoutEndTimeOf(breakoutStartTime, breakoutDuration, duration) ==
  Min(breakoutStartTime + breakoutDuration, duration)

\* The BreakoutEvent schedule() records: a new one when the type is not none,
\* otherwise the field is left as it was.
scheduleBreakoutEvent(prevEvent, scenario, r) ==
  IF scenario.breakout.type # "none"
  THEN LET breakoutStartTime == randomIn(scenario.breakout.timeWindow[1],
                                         scenario.breakout.timeWindow[2], r)
           breakoutDuration == calculateBreakoutDuration(scenario.breakout.speed,
                                                         Abs(scenario.breakout.magnitude))
       IN << [startTime |-> breakoutStartTime,
              endTime |-> breakoutEndTimeOf(breakoutStartTime, breakoutDuration,
                                            scenario.duration),
              type |-> scenario.breakout.type,
              targetPrice |-> targetPriceOf(scenario.startPrice, scenario.breakout.magnitude),
              speed |-> scenario.breakout.speed] >>
  ELSE prevEvent

\* A fake breakout without its reversal.
fakeEvents_noReversal(fake, startPrice, r) ==
  LET fakeStartTime == randomIn(fake.timeWindow[1], fake.timeWindow[2], r)
      fakeDuration == calculateBreakoutDuration("gradual", Abs(fake.magnitude))
      fakeEndTime == fakeStartTime + fakeDuration
  IN << [type |-> "fake", startTime |-> fakeStartTime, endTime |-> fakeEndTime,
         targetPrice |-> targetPriceOf(startPrice, fake.magnitude)] >>

\* The two events one fake breakout contributes: the outward move and the reversal.
fakeEvents(fake, startPrice, r) ==
  LET fakeStartTime == randomIn(fake.timeWindow[1], fake.timeWindow[2], r)
      fakeDuration == calculateBreakoutDuration("gradual", Abs(fake.magnitude))
      fakeEndTime == fakeStartTime + fakeDuration
      fakeReversalTime == fakeEndTime + fake.reversalSpeed
  IN << [type |-> "fake", startTime |-> fakeStartTime, endTime |-> fakeEndTime,
         targetPrice |-> targetPriceOf(startPrice, fake.magnitude)],
        [type |-> "fake", startTime |-> fakeEndTime, endTime |-> fakeReversalTime,
         targetPrice |-> startPrice] >>

RECURSIVE allFakeEvents(_, _, _)
allFakeEvents(fakeBreakouts, startPrice, rs) ==
  IF fakeBreakouts = <<>> THEN <<>>
  ELSE fakeEvents(Head(fakeBreakouts), startPrice, Head(rs))
       \o allFakeEvents(Tail(fakeBreakouts), startPrice, Tail(rs))

\* The main event, pushed after the fakes when a breakout was drawn in this call
\* and the scheduler holds a BreakoutEvent.
mainEvents(scenario, event) ==
  IF scenario.breakout.type # "none" /\ event # <<>>
  THEN << [type |-> "main", startTime |-> event[1].startTime, endTime |-> event[1].endTime,
           targetPrice |-> event[1].targetPrice] >>
  ELSE <<>>

\* allEvents.sort((a, b) => a.startTime - b.startTime): a stable sort.
RECURSIVE insertSorted(_, _)
insertSorted(sorted, e) ==
  IF sorted = <<>> THEN <<e>>
  ELSE IF Head(sorted).startTime <= e.startTime
       THEN <<Head(sorted)>> \o insertSorted(Tail(sorted), e)
       ELSE <<e>> \o sorted

RECURSIVE sortEvents(_)
sortEvents(events) ==
  IF events = <<>> THEN <<>>
  ELSE insertSorted(sortEvents(SubSeq(events, 1, Len(events) - 1)), Last(events))

rangingSegment(startTime, endTime, description) ==
  [startTime |-> startTime, endTime |-> endTime, regime |-> <<"N", "O">>, sign |-> "F",
   targetPrice |-> <<>>, description |-> description]

\* A segment whose sign is Up also when the target is the start price.
eventSegment_upAtStart(event, startPrice) ==
  LET direction == IF event.targetPrice >= startPrice THEN "U" ELSE "D"
  IN [startTime |-> event.startTime, endTime |-> event.endTime,
      regime |-> <<"N", "B">>, sign |-> direction,
      targetPrice |-> <<event.targetPrice>>,
      description |-> IF event.type = "main"
                      THEN (IF direction = "U" THEN "Main bullish breakout"
                                               ELSE "Main bearish breakout")
                      ELSE "Fake breakout"]

eventSegment(event, startPrice) ==
  LET direction == IF event.targetPrice > startPrice THEN "U" ELSE "D"
  IN [startTime |-> event.startTime, endTime |-> event.endTime,
      regime |-> <<"N", "B">>, sign |-> direction,
      targetPrice |-> <<event.targetPrice>>,
      description |-> IF event.type = "main"
                      THEN (IF direction = "U" THEN "Main bullish breakout"
                                               ELSE "Main bearish breakout")
                      ELSE "Fake breakout"]

\* The loop over the sorted events: a ranging segment before an event that starts
\* after currentTime, then the event's segment; currentTime becomes its endTime.
RECURSIVE buildSegments(_, _, _)
buildSegments(events, currentTime, startPrice) ==
  IF events = <<>> THEN <<>>
  ELSE LET event == Head(events)
       IN (IF currentTime < event.startTime
           THEN << rangingSegment(currentTime, event.startTime, "Ranging period") >>
           ELSE <<>>)
          \o << eventSegment(event, startPrice) >>
          \o buildSegments(Tail(events), event.endTime, startPrice)

\* A final ranging period that is added only after an event.
finalSegments_afterEvents(currentTime, duration) ==
  IF 0 < currentTime /\ currentTime < duration
  THEN << rangingSegment(currentTime, duration, "Post-breakout ranging") >>
  ELSE <<>>

\* The final ranging period, if time remains.
finalSegments(currentTime, duration) ==
  IF currentTime < duration
  THEN << rangingSegment(currentTime, duration, "Post-breakout ranging") >>
  ELSE <<>>

\* The timeline schedule() builds, given the BreakoutEvent it holds after its
\* first phase and the draws of the fake breakouts.
scheduleTimeline(scenario, event, fakeDraws) ==
  LET allEvents == sortEvents(allFakeEvents(scenario.advanced.fakeBreakouts,
                                            scenario.startPrice, fakeDraws)
                              \o mainEvents(scenario, event))
      currentTime == IF allEvents = <<>> THEN 0 ELSE Last(allEvents).endTime
  IN buildSegments(allEvents, 0, scenario.startPrice)
     \o finalSegments(currentTime, scenario.duration)

segmentResult(segment) ==
  [regime |-> segment.regime, sign |-> segment.sign, targetPrice |-> segment.targetPrice]

RECURSIVE findSegment(_, _)
findSegment(segments, elapsedTime) ==
  IF segments = <<>> THEN <<>>
  ELSE IF elapsedTime >= Head(segments).startTime /\ elapsedTime < Head(segments).endTime
       THEN << Head(segments) >>
       ELSE findSegment(Tail(segments), elapsedTime)

getCurrentRegime(tl, elapsedTime) ==
  IF Len(tl) = 0
  THEN [regime |-> <<"N", "O">>, sign |-> "F", targetPrice |-> <<>>]
  ELSE LET found == findSegment(tl, elapsedTime)
       IN IF found # <<>> THEN segmentResult(found[1]) ELSE segmentResult(Last(tl))

isInBreakout(tl, elapsedTime) == getCurrentRegime(tl, elapsedTime).regime[2] = "B"

getTimeUntilBreakout(event, elapsedTime) ==
  IF event = <<>> THEN <<>>
  ELSE IF event[1].startTime - elapsedTime > 0
       THEN << event[1].startTime - elapsedTime >>
       ELSE <<>>

\* ------------------------------------------------------------------ BreakoutNotifier
newNotifier ==
  [lastWarningTime |-> 0, lastProgressTime |-> 0,
   breakoutInProgress |-> FALSE, breakoutStartPrice |-> 0]

\* A BreakoutEvent of the notifier with none of its optional fields.
blankEvent(type, breakoutType, timestamp) ==
  [type |-> type, breakoutType |-> breakoutType, timeToBreakout |-> <<>>,
   currentPrice |-> <<>>, targetPrice |-> <<>>, magnitude |-> <<>>,
   expectedDuration |-> <<>>, progress |-> <<>>, timestamp |-> timestamp]

\* A scheduleWarning without the one-second throttle.
scheduleWarning_unthrottled(n, t, breakoutTime, currentTime, warningLead, breakoutType, magnitude) ==
  LET timeToBreakout == breakoutTime - currentTime
  IN IF timeToBreakout > 0 /\ timeToBreakout <= warningLead
     THEN [n |-> [n EXCEPT !.lastWarningTime = t],
           out |-> << [blankEvent("warning", breakoutType, t) EXCEPT
                         !.timeToBreakout = <<timeToBreakout>>,
                         !.magnitude = <<magnitude>>] >>]
     ELSE [n |-> n, out |-> <<>>]

\* Each operation yields the notifier after it and the events it emitted.
scheduleWarning(n, t, breakoutTime, currentTime, warningLead, breakoutType, magnitude) ==
  LET timeToBreakout == breakoutTime - currentTime
  IN IF timeToBreakout > 0 /\ timeToBreakout <= warningLead
     THEN IF t - n.lastWarningTime < 2
          THEN [n |-> n, out |-> <<>>]
          ELSE [n |-> [n EXCEPT !.lastWarningTime = t],
                out |-> << [blankEvent("warning", breakoutType, t) EXCEPT
                              !.timeToBreakout = <<timeToBreakout>>,
                              !.magnitude = <<magnitude>>] >>]
     ELSE [n |-> n, out |-> <<>>]

\* A notifyBreakoutStart without the check for a breakout in progress.
notifyBreakoutStart_unguarded(n, t, breakoutType, currentPrice, targetPrice, magnitude, expectedDuration) ==
  [n |-> [n EXCEPT !.breakoutInProgress = TRUE, !.breakoutStartPrice = currentPrice],
   out |-> << [blankEvent("start", breakoutType, t) EXCEPT
                 !.currentPrice = <<currentPrice>>,
                 !.targetPrice = <<targetPrice>>,
                 !.magnitude = <<magnitude>>,
                 !.expectedDuration = <<expectedDuration>>] >>]

notifyBreakoutStart(n, t, breakoutType, currentPrice, targetPrice, magnitude, expectedDuration) ==
  IF n.breakoutInProgress
  THEN [n |-> n, out |-> <<>>]
  ELSE [n |-> [n EXCEPT !.breakoutInProgress = TRUE, !.breakoutStartPrice = currentPrice],
        out |-> << [blankEvent("start", breakoutType, t) EXCEPT
                      !.currentPrice = <<currentPrice>>,
                      !.targetPrice = <<targetPrice>>,
                      !.magnitude = <<magnitude>>,
                      !.expectedDuration = <<expectedDuration>>] >>]

\* Math.max(0, Math.min(1, currentMove / totalMove)), or 0 when totalMove is 0,
\* in thousandths.
progressOf(currentPrice, targetPrice, startPrice) ==
  LET totalMove == targetPrice - startPrice
      currentMove == currentPrice - startPrice
  IN IF totalMove # 0
     THEN Max(0, Min(1000, (currentMove * 1000 * (IF totalMove < 0 THEN -1 ELSE 1))
                             \div Abs(totalMove)))
     ELSE 0

\* A notifyProgress without the throttle.
notifyProgress_unthrottled(n, t, breakoutType, currentPrice, targetPrice, throttleSeconds) ==
  IF ~n.breakoutInProgress
  THEN [n |-> n, out |-> <<>>]
  ELSE [n |-> [n EXCEPT !.lastProgressTime = t],
        out |-> << [blankEvent("progress", breakoutType, t) EXCEPT
                      !.currentPrice = <<currentPrice>>,
                      !.targetPrice = <<targetPrice>>,
                      !.progress = <<progressOf(currentPrice, targetPrice,
                                                n.breakoutStartPrice)>>] >>]

\* A notifyProgress without the check for a breakout in progress.
notifyProgress_unguarded(n, t, breakoutType, currentPrice, targetPrice, throttleSeconds) ==
  IF t - n.lastProgressTime < throttleSeconds
  THEN [n |-> n, out |-> <<>>]
  ELSE [n |-> [n EXCEPT !.lastProgressTime = t],
        out |-> << [blankEvent("progress", breakoutType, t) EXCEPT
                      !.currentPrice = <<currentPrice>>,
                      !.targetPrice = <<targetPrice>>,
                      !.progress = <<progressOf(currentPrice, targetPrice,
                                                n.breakoutStartPrice)>>] >>]

notifyProgress(n, t, breakoutType, currentPrice, targetPrice, throttleSeconds) ==
  IF ~n.breakoutInProgress
  THEN [n |-> n, out |-> <<>>]
  ELSE IF t - n.lastProgressTime < throttleSeconds
       THEN [n |-> n, out |-> <<>>]
       ELSE [n |-> [n EXCEPT !.lastProgressTime = t],
             out |-> << [blankEvent("progress", breakoutType, t) EXCEPT
                           !.currentPrice = <<currentPrice>>,
                           !.targetPrice = <<targetPrice>>,
                           !.progress = <<progressOf(currentPrice, targetPrice,
                                                     n.breakoutStartPrice)>>] >>]

\* A notifyBreakoutCompletion without the check for a breakout in progress.
notifyBreakoutCompletion_unguarded(n, t, breakoutType, currentPrice, targetPrice, magnitude) ==
  [n |-> [n EXCEPT !.breakoutInProgress = FALSE],
   out |-> << [blankEvent("completion", breakoutType, t) EXCEPT
                 !.currentPrice = <<currentPrice>>,
                 !.targetPrice = <<targetPrice>>,
                 !.magnitude = <<magnitude>>,
                 !.progress = <<1000>>] >>]

notifyBreakoutCompletion(n, t, breakoutType, currentPrice, targetPrice, magnitude) ==
  IF ~n.breakoutInProgress
  THEN [n |-> n, out |-> <<>>]
  ELSE [n |-> [n EXCEPT !.breakoutInProgress = FALSE],
        out |-> << [blankEvent("completion", breakoutType, t) EXCEPT
                      !.currentPrice = <<currentPrice>>,
                      !.targetPrice = <<targetPrice>>,
                      !.magnitude = <<magnitude>>,
                      !.progress = <<1000>>] >>]

\* A reset() that leaves the in-progress flag and the start price.
notifierReset_keepsBreakout(n) ==
  [n EXCEPT !.lastWarningTime = 0, !.lastProgressTime = 0]

notifierReset(n) ==
  [n EXCEPT !.lastWarningTime = 0, !.lastProgressTime = 0,
            !.breakoutInProgress = FALSE, !.breakoutStartPrice = 0]

\* ------------------------------------------------------------------ listeners
\* listeners maps an event type to the sequence of callbacks registered for it (a
\* type with no entry in the Map has the empty sequence).  A callback is named by
\* what it does when invoked: "log" returns, "fail" throws, "once" calls off() for
\* itself and the event's type and returns.
EventTypes == {"warning", "start", "progress", "completion"}

Callbacks == {"log", "fail", "once"}

noListeners == [type \in EventTypes |-> <<>>]

on(ls, eventType, callback) == [ls EXCEPT ![eventType] = Append(@, callback)]

onAny(ls, callback) == [type \in EventTypes |-> Append(ls[type], callback)]

\* callbacks.indexOf(callback), from 1; 0 when absent.
indexOf(callbacks, callback) ==
  IF \E i \in 1 .. Len(callbacks) : callbacks[i] = callback
  THEN CHOOSE i \in 1 .. Len(callbacks) :
         /\ callbacks[i] = callback
         /\ \A j \in 1 .. i - 1 : callbacks[j] # callback
  ELSE 0

\* callbacks.splice(index, 1)
splice(callbacks, index) ==
  [i \in 1 .. Len(callbacks) - 1 |-> IF i < index THEN callbacks[i] ELSE callbacks[i + 1]]

off(ls, eventType, callback) ==
  IF indexOf(ls[eventType], callback) > 0
  THEN [ls EXCEPT ![eventType] = splice(@, indexOf(@, callback))]
  ELSE ls

clearListeners(ls) == noListeners

\* One invocation of a callback with an event: the listeners after it and whether
\* it threw.
invoke(ls, callback, event) ==
  [listeners |-> IF callback = "once" THEN off(ls, event.type, callback) ELSE ls,
   threw |-> callback = "fail"]

\* callbacks.forEach over the array of the event's type, from index k: the length
\* len is read once when forEach starts, an index past the end of the array as it
\* is now is passed over, and a throw is caught and logged.  log lists the
\* invocations made, errors counts the console.error calls, propagated tells
\* whether a throw reached the caller of emit.
RECURSIVE forEachFrom(_, _, _, _, _)
forEachFrom(ls, event, k, len, done) ==
  IF k > len
  THEN [listeners |-> ls, log |-> done.log, errors |-> done.errors, propagated |-> FALSE]
  ELSE IF k > Len(ls[event.type])
       THEN forEachFrom(ls, event, k + 1, len, done)
       ELSE LET callback == ls[event.type][k]
                r == invoke(ls, callback, event)
            IN forEachFrom(r.listeners, event, k + 1, len,
                           [log |-> Append(done.log, [callback |-> callback,
                                                       type |-> event.type]),
                            errors |-> done.errors + (IF r.threw THEN 1 ELSE 0)])

emit(ls, event, done) == forEachFrom(ls, event, 1, Len(ls[event.type]), done)

\* The events of one operation emitted in order; nothing more is emitted once a
\* throw has propagated.
RECURSIVE emitAll(_, _, _)
emitAll(ls, events, done) ==
  IF events = <<>>
  THEN [listeners |-> ls, log |-> done.log, errors |-> done.errors, propagated |-> FALSE]
  ELSE LET r == emit(ls, events[1], done)
       IN IF r.propagated THEN r
          ELSE emitAll(r.listeners, Tail(events), [log |-> r.log, errors |-> r.errors])

NoDispatch == [log |-> <<>>, errors |-> 0, propagated |-> FALSE]

dispatchOf(r) == [log |-> r.log, errors |-> r.errors, propagated |-> r.propagated]

\* ------------------------------------------------------------------ QuoteModel
\* A model holds the three maps of the data file.  Keys are tuples: <<"N","O">>
\* stands for the key "N,O" and <<"N","B","U">> for "N,B,U".  A bucket set is the
\* sequence of its entries, in insertion order: the bin's three integers and its
\* weight.
emptyQuoteModel ==
  [transition |-> <<>>, ticksPerRegime |-> <<>>, secondsPerRegime |-> <<>>]

mapGet(map, key, default) == IF key \in DOMAIN map THEN map[key] ELSE default

\* ticks / secs > 0, for secs = max(1, seconds || 1) and ticks = ticks || 0.
lambdaPositive(model, regime) ==
  LET secs == Max(1, IF mapGet(model.secondsPerRegime, regime, 0) = 0
                     THEN 1 ELSE mapGet(model.secondsPerRegime, regime, 0))
      ticks == mapGet(model.ticksPerRegime, regime, 0)
  IN ticks > 0 /\ secs > 0

\* The values poissonSample can return: with lambda <= 0 the first product is
\* already below exp(-lambda) >= 1, so 0; with lambda > 0 any count, here up to
\* MaxUpdates.
sampleNbUpdates(model, regime) ==
  IF lambdaPositive(model, regime) THEN 0 .. MaxUpdates ELSE {0}

\* poissonSample compares p, a product of draws, with L = exp(-lambda).  The
\* model tracks p by its place among PLevels + 1 thresholds 0 = b0 < .. < 1: p = 0
\* is place 0 and p in (b(i-1), b(i)] is place i, so p = 1 is place PLevels.
\* L is a threshold: exp(-lambda) >= 1 for lambda <= 0 is place PLevels; it
\* underflows to 0, place 0, for lambda above about 745; otherwise it is a
\* threshold in between, the lower the larger lambda.
expNeg(model, regime) ==
  LET secs == Max(1, IF mapGet(model.secondsPerRegime, regime, 0) = 0
                     THEN 1 ELSE mapGet(model.secondsPerRegime, regime, 0))
      ticks == mapGet(model.ticksPerRegime, regime, 0)
  IN IF ~lambdaPositive(model, regime) THEN PLevels
     ELSE IF ticks > 745 * secs THEN 0
     ELSE Max(1, PLevels - 1 - (ticks \div secs))

\* k is counted up to one more than the largest count of updates.
MaxDraws == MaxUpdates + 1

\* const L = Math.exp(-lambda); let k = 0; let p = 1;
poissonStart(model, regime) ==
  [active |-> TRUE, regime |-> regime, L |-> expNeg(model, regime), k |-> 0,
   p |-> PLevels, result |-> <<>>]

\* A loop that returns k.
poissonPass_countsAll(ps, q) ==
  LET k == Min(ps.k + 1, MaxDraws)
  IN IF q > ps.L
     THEN [ps EXCEPT !.k = k, !.p = q]
     ELSE [ps EXCEPT !.k = k, !.p = q, !.active = FALSE, !.result = << k >>]

\* One pass of do { k++; p *= Math.random(); } while (p > L), the product being
\* at place q, and return k - 1 when the loop ends.  k is counted up to MaxDraws.
poissonPass(ps, q) ==
  LET k == Min(ps.k + 1, MaxDraws)
  IN IF q > ps.L
     THEN [ps EXCEPT !.k = k, !.p = q]
     ELSE [ps EXCEPT !.k = k, !.p = q, !.active = FALSE, !.result = << k - 1 >>]

\* A fallback without a spread.
fallbackTick_zeroSpread == [dp |-> 0, spread |-> 0, size |-> 100]

\* { dp: 0, spread: 0.01, size: 100 }
fallbackTick == [dp |-> 0, spread |-> 10, size |-> 100]

decodeBin(entry) ==
  [dp |-> entry.dpBin * 5, spread |-> entry.spBin * 10, size |-> entry.szBin * 100]

\* The entries the weighted selection can return over all values of
\* Math.random() in [0, 1): the running remainder random - weight is <= 0 at the
\* first entry when random is 0 or at most its weight, and at a later entry
\* exactly when that entry has positive weight.
selectable(entries) ==
  { i \in 1 .. Len(entries) : i = 1 \/ entries[i].weight > 0 }

\* The ticks sampleTick can return.
sampleTick(model, regime, sign) ==
  LET key == <<regime[1], regime[2], sign>>
  IN IF key \notin DOMAIN model.transition \/ Len(model.transition[key]) = 0
     THEN { fallbackTick }
     ELSE { decodeBin(model.transition[key][i]) : i \in selectable(model.transition[key]) }

\* ------------------------------------------------------------------ QuoteGenerator
newGenerator(bid0, ask0) == [bid |-> bid0, ask |-> ask0]

\* a / b rounded to the nearest integer (b > 0): the model's price resolution.
roundDiv(a, b) ==
  IF a >= 0 THEN (a + (b \div 2)) \div b ELSE 0 - (((0 - a) + (b \div 2)) \div b)

signum(x) == IF x > 0 THEN 1 ELSE IF x < 0 THEN -1 ELSE 0

\* The factors of biasTowardTarget are fractions; the model holds their
\* numerators, distanceToTarget being targetPrice - currentPrice:
\*   urgency    = min(1, |distance| / currentPrice * 20)   as urgency * currentPrice
\*   biasFactor = 0.7 * urgency                       as biasFactor * 10 * currentPrice
\*   stepSize   = min(0.05, |distance| * 0.1)              as stepSize * 10
urgency(currentPrice, distanceToTarget) == Min(currentPrice, 20 * Abs(distanceToTarget))

biasFactor(currentPrice, distanceToTarget) == 7 * urgency(currentPrice, distanceToTarget)

\* A step that is not limited to 5 cents.
stepSize_unlimited(distanceToTarget) == Abs(distanceToTarget)

stepSize(distanceToTarget) == Min(500, Abs(distanceToTarget))

\* desiredDirection * stepSize
biasedDp(distanceToTarget) == signum(distanceToTarget) * stepSize(distanceToTarget)

\* A target that is never very close.
veryClose_never(currentPrice, distanceToTarget) == FALSE

\* Math.abs(distanceToTarget) < currentPrice * 0.001
veryClose(currentPrice, distanceToTarget) == Abs(distanceToTarget) * 1000 < currentPrice

\* dp itself when very close to the target; otherwise
\*   finalDp = biasFactor * biasedDp + (1 - biasFactor) * dp,
\* over the common denominator 100 * currentPrice.
biasTowardTarget(bid, dp, targetPrice) ==
  LET distanceToTarget == targetPrice - bid
  IN IF veryClose(bid, distanceToTarget)
     THEN dp
     ELSE roundDiv(biasFactor(bid, distanceToTarget) * biasedDp(distanceToTarget)
                     + (10 * bid - biasFactor(bid, distanceToTarget)) * 10 * dp,
                   100 * bid)

\* Math.round(x * 100) / 100.  x is a binary floating-point number and so is
\* the product x * 100: off a half cent the product rounds to the nearest cent;
\* on a half cent the product is the half itself or the number just below it,
\* and Math.round takes it up or down.
roundCents(x) ==
  IF x % 10 = 5 THEN { x - 5, x + 5 } ELSE { ((x + 5) \div 10) * 10 }

\* Math.max(bid + spread, bid + 0.01)
askOf(bid, spread) == Max(bid + spread, bid + 10)

\* A sign that is always Flat.
signOf_flat(dp) == "F"

\* dp > 0 ? "U" : dp < 0 ? "D" : "F"
signOf(dp) == IF dp > 0 THEN "U" ELSE IF dp < 0 THEN "D" ELSE "F"

\* One sub-update of stepSecond for the sampled tick t: the generator after it,
\* the tick pushed and the sign for the next sub-update, for each way the two
\* prices of the tick can round.
subUpdate(g, t, targetPrice) ==
  LET dp == IF targetPrice # <<>> THEN biasTowardTarget(g.bid, t.dp, targetPrice[1])
            ELSE t.dp
      bid == g.bid + dp
      ask == askOf(bid, t.spread)
  IN { [g |-> [bid |-> bid, ask |-> ask],
        tick |-> [priceBid |-> priceBid, priceAsk |-> priceAsk,
                  sizeBid |-> t.size \div 2, sizeAsk |-> t.size \div 2,
                  sampled |-> t, dp |-> dp],
        sign |-> signOf(dp)]
       : priceBid \in roundCents(bid), priceAsk \in roundCents(ask) }

\* The results stepSecond can have with n sub-updates left: the generator after
\* the step and the ticks in order.  A tick also records the sampled values and
\* the delta applied (observation only).
RECURSIVE stepSecondFrom(_, _, _, _, _, _, _)
stepSecondFrom(model, g, regime, currentSign, targetPrice, n, ticks) ==
  IF n = 0
  THEN { [g |-> g, ticks |-> ticks] }
  ELSE UNION { stepSecondFrom(model, u.g, regime, u.sign, targetPrice, n - 1,
                                 Append(ticks, u.tick))
               : u \in UNION { subUpdate(g, t, targetPrice)
                               : t \in sampleTick(model, regime, currentSign) } }

stepSecond(model, g, regime, sign, targetPrice) ==
  UNION { stepSecondFrom(model, g, regime, sign, targetPrice, n, <<>>)
          : n \in sampleNbUpdates(model, regime) }

\* The volume-weighted mid, in eighths of a price unit: one eighth stands for one
\* unit in the last place of the double. With no size it is (bid + ask) / 2;
\* otherwise the two products, their sum and the quotient are each rounded, and the
\* result is the double of the exact value or one of its neighbours.
getVolumeWeightedMid(g, sizeBid, sizeAsk) ==
  LET totalSize == sizeBid + sizeAsk
  IN IF totalSize = 0
     THEN {4 * (g.bid + g.ask)}
     ELSE {roundDiv(8 * (g.bid * sizeAsk + g.ask * sizeBid), totalSize) + e
           : e \in {-1, 0, 1}}

\* ------------------------------------------------------------------ PriceModel
\* The buffer entry of the scenario's starting prices; mid is in eighths of a
\* price unit.
baseEntry(scenario) ==
  [bid |-> scenario.startPrice,
   ask |-> scenario.startPrice + scenario.spread.base,
   mid |-> 4 * (scenario.startPrice + (scenario.startPrice + scenario.spread.base))]

initialBuffer(scenario, maxBufferSize) == [i \in 1 .. maxBufferSize |-> baseEntry(scenario)]

\* The fields the constructor sets, but for the scheduler, notifier and generator.
newPriceModel(scenario, windowSeconds, t) ==
  [scenario |-> scenario,
   window |-> windowSeconds,
   maxBufferSize |-> 2 * windowSeconds + 1,
   buffer |-> initialBuffer(scenario, 2 * windowSeconds + 1),
   lastExchangeQuotes |-> <<>>,
   pivot |-> "null",
   pivotBid |-> scenario.startPrice,
   pivotAsk |-> scenario.startPrice + scenario.spread.base,
   bestBid |-> scenario.startPrice,
   bestAsk |-> scenario.startPrice + scenario.spread.base,
   startTime |-> t,
   elapsedTime |-> 0,
   hasNotifiedBreakoutStart |-> FALSE]

\* A threshold ten times as wide.
nearTarget_tenfold(currentPrice, targetPrice, perMille) ==
  Abs(targetPrice - currentPrice) * 1000 < Abs(targetPrice) * perMille * 10

\* Math.abs(targetPrice - currentPrice) < Math.abs(targetPrice) * perMille / 1000
nearTarget(currentPrice, targetPrice, perMille) ==
  Abs(targetPrice - currentPrice) * 1000 < Abs(targetPrice) * perMille

noEmit(n) == [n |-> n, out |-> <<>>]

\* handleBreakoutNotifications at elapsed time elapsedTime and clock t: the
\* notifier after it, the events emitted, the started flag, whether
\* notifyBreakoutStart and notifyBreakoutCompletion were called, and whether the
\* call went past its first return.
handleBreakoutNotifications(pm, n, tl, event, elapsedTime, t) ==
  IF event = <<>> \/ pm.scenario.breakout.type = "none"
  THEN [n |-> n, out |-> <<>>, hasNotified |-> pm.hasNotifiedBreakoutStart,
        startCalled |-> FALSE, completionCalled |-> FALSE, handled |-> FALSE]
  ELSE LET b == pm.scenario.breakout
           ev == event[1]
           currentPrice == pm.bestBid
           warning == IF b.notification /\ b.preWarning # 0
                      THEN scheduleWarning(n, t, ev.startTime, elapsedTime, b.preWarning,
                                           ev.type, b.magnitude)
                      ELSE noEmit(n)
           inBreakout == isInBreakout(tl, elapsedTime)
           starting == inBreakout /\ ~pm.hasNotifiedBreakoutStart
           started == IF starting
                      THEN notifyBreakoutStart(warning.n, t, ev.type, currentPrice,
                                               ev.targetPrice, b.magnitude,
                                               ev.endTime - ev.startTime)
                      ELSE noEmit(warning.n)
           flag == pm.hasNotifiedBreakoutStart \/ starting
           progress == IF inBreakout /\ flag
                       THEN notifyProgress(started.n, t, ev.type, currentPrice,
                                           ev.targetPrice, 2)
                       ELSE noEmit(started.n)
           reaching == inBreakout /\ flag /\ nearTarget(currentPrice, ev.targetPrice, 2)
           exiting == ~inBreakout /\ flag /\ nearTarget(currentPrice, ev.targetPrice, 5)
           reached == IF reaching
                      THEN notifyBreakoutCompletion(progress.n, t, ev.type, currentPrice,
                                                    ev.targetPrice, b.magnitude)
                      ELSE noEmit(progress.n)
           exited == IF exiting
                     THEN notifyBreakoutCompletion(reached.n, t, ev.type, currentPrice,
                                                   ev.targetPrice, b.magnitude)
                     ELSE noEmit(reached.n)
       IN [n |-> exited.n,
           out |-> warning.out \o started.out \o progress.out \o reached.out \o exited.out,
           hasNotified |-> IF ~inBreakout /\ flag THEN FALSE ELSE flag,
           startCalled |-> starting,
           completionCalled |-> (reaching \/ exiting),
           handled |-> TRUE]

\* An entry that falls back to the scenario's starting quote when no tick came.
stepEntry_base(pm, mid, ticks) ==
  IF Len(ticks) > 0
  THEN [bid |-> Last(ticks).priceBid, ask |-> Last(ticks).priceAsk, mid |-> mid]
  ELSE baseEntry(pm.scenario)

\* The entry update() pushes: from the last tick and the weighted mid computed at
\* its sizes, or the last entry again.
stepEntry(pm, mid, ticks) ==
  IF Len(ticks) > 0
  THEN [bid |-> Last(ticks).priceBid, ask |-> Last(ticks).priceAsk, mid |-> mid]
  ELSE Last(pm.buffer)

\* A push that never drops an entry.
pushEntry_unbounded(buffer, entry, maxBufferSize) == Append(buffer, entry)

\* buffer.push(entry); if (buffer.length > maxBufferSize) buffer.shift()
pushEntry(buffer, entry, maxBufferSize) ==
  IF Len(buffer) + 1 > maxBufferSize THEN Tail(Append(buffer, entry))
  ELSE Append(buffer, entry)

RECURSIVE maxMid(_)
maxMid(buffer) ==
  IF Len(buffer) = 1 THEN buffer[1].mid ELSE Max(buffer[1].mid, maxMid(Tail(buffer)))

RECURSIVE minMid(_)
minMid(buffer) ==
  IF Len(buffer) = 1 THEN buffer[1].mid ELSE Min(buffer[1].mid, minMid(Tail(buffer)))

\* The pivot taken at the newest entry instead of the centre.
detectPivot_newest(buffer, window) ==
  LET centre == Last(buffer)
  IN IF centre.mid = maxMid(buffer) THEN "PH"
     ELSE IF centre.mid = minMid(buffer) THEN "PL"
     ELSE "null"

\* The pivot at the centre entry, buffer[window] of the 0-based array.
detectPivot(buffer, window) ==
  LET centre == buffer[window + 1]
  IN IF centre.mid = maxMid(buffer) THEN "PH"
     ELSE IF centre.mid = minMid(buffer) THEN "PL"
     ELSE "null"

\* An entry taken from the newest end of the buffer.
centreEntry_newest(buffer, window) == buffer[Len(buffer)]

\* const centre = this.buffer[this.window]
centreEntry(buffer, window) == buffer[window + 1]

\* update() after the generator's step: the step's result res, the notifications'
\* result h, at elapsed time elapsedTime.
updated(pm, h, res, elapsedTime) ==
  LET hasTicks == Len(res.ticks) > 0
      buffer == pushEntry(pm.buffer, stepEntry(pm, res.mid, res.ticks), pm.maxBufferSize)
      full == Len(buffer) = pm.maxBufferSize
  IN [pm EXCEPT
        !.elapsedTime = elapsedTime,
        !.hasNotifiedBreakoutStart = h.hasNotified,
        !.lastExchangeQuotes = IF hasTicks THEN << Last(res.ticks) >> ELSE @,
        !.bestBid = IF hasTicks THEN Last(res.ticks).priceBid ELSE @,
        !.bestAsk = IF hasTicks THEN Last(res.ticks).priceAsk ELSE @,
        !.buffer = buffer,
        !.pivot = IF full THEN detectPivot(buffer, pm.window) ELSE @,
        !.pivotBid = IF full THEN centreEntry(buffer, pm.window).bid ELSE @,
        !.pivotAsk = IF full THEN centreEntry(buffer, pm.window).ask ELSE @]

\* A reset that also forgets the last exchange quotes.
resetWithScenario_clearsQuotes(pm, scenario, t) ==
  [pm EXCEPT
     !.scenario = scenario,
     !.buffer = initialBuffer(scenario, pm.maxBufferSize),
     !.lastExchangeQuotes = <<>>,
     !.bestBid = scenario.startPrice,
     !.bestAsk = scenario.startPrice + scenario.spread.base,
     !.pivot = "null",
     !.pivotBid = scenario.startPrice,
     !.pivotAsk = scenario.startPrice + scenario.spread.base,
     !.startTime = t,
     !.elapsedTime = 0,
     !.hasNotifiedBreakoutStart = FALSE]

\* A reset that leaves the started flag as it was.
resetWithScenario_keepsFlag(pm, scenario, t) ==
  [pm EXCEPT
     !.scenario = scenario,
     !.buffer = initialBuffer(scenario, pm.maxBufferSize),
     !.bestBid = scenario.startPrice,
     !.bestAsk = scenario.startPrice + scenario.spread.base,
     !.pivot = "null",
     !.pivotBid = scenario.startPrice,
     !.pivotAsk = scenario.startPrice + scenario.spread.base,
     !.startTime = t,
     !.elapsedTime = 0]

\* resetWithScenario(scenario) at clock t: the fields the constructor's window
\* fixed stay, lastExchangeQuotes is not touched, the rest is set from the scenario.
resetWithScenario(pm, scenario, t) ==
  [pm EXCEPT
     !.scenario = scenario,
     !.buffer = initialBuffer(scenario, pm.maxBufferSize),
     !.bestBid = scenario.startPrice,
     !.bestAsk = scenario.startPrice + scenario.spread.base,
     !.pivot = "null",
     !.pivotBid = scenario.startPrice,
     !.pivotAsk = scenario.startPrice + scenario.spread.base,
     !.startTime = t,
     !.elapsedTime = 0,
     !.hasNotifiedBreakoutStart = FALSE]

\* ------------------------------------------------------------------ observation
NoCall ==
  [op |-> "new", args |-> <<>>, pre |-> newNotifier, at |-> 0, resetPending |-> FALSE,
   listeners |-> noListeners]
NoStep ==
  [ticks |-> <<>>, inBreakout |-> FALSE, prevInBreakout |-> FALSE, handled |-> FALSE,
   wasStarted |-> FALSE, startCalled |-> FALSE, completionCalled |-> FALSE,
   currentPrice |-> 0]
\* Neither sampleTick nor stepSecond was called on its own; poissonSample is not
\* running.
NoSample ==
  [op |-> "none", regime |-> <<>>, sign |-> "F", targetPrice |-> <<>>,
   before |-> newGenerator(0, 0), result |-> <<>>, stepped |-> FALSE]
NoPoisson == [active |-> FALSE, regime |-> <<>>, L |-> 0, k |-> 0, p |-> 0, result |-> <<>>]
NoWarnings == [times |-> <<>>, resetBetween |-> FALSE, resetSince |-> FALSE]

\* The pushed entries with one more, the last maxBufferSize of them kept.
recordPushed(entries, entry, maxBufferSize) ==
  LET all == Append(entries, [bid |-> entry.bid, ask |-> entry.ask])
  IN IF Len(all) > maxBufferSize THEN Tail(all) ELSE all

eventsOfType(events, type) == SelectSeq(events, LAMBDA e : e.type = type)

\* Start events since the last completion event or reset(), counted up to 2.
countStarts(count, events, wasReset) ==
  IF wasReset \/ eventsOfType(events, "completion") # <<>>
  THEN 0
  ELSE Min(2, count + Len(eventsOfType(events, "start")))

\* The times of the last two warnings, whether reset() was called between them
\* (resetBetween) and whether it was called since the last one (resetSince).
recordWarnings(hist, events, wasReset) ==
  IF eventsOfType(events, "warning") # <<>>
  THEN [times |-> (IF hist.times = <<>> THEN <<>> ELSE << Last(hist.times) >>)
                    \o << eventsOfType(events, "warning")[1].timestamp >>,
        resetBetween |-> hist.resetSince,
        resetSince |-> FALSE]
  ELSE IF wasReset /\ hist.times # <<>>
       THEN [hist EXCEPT !.resetSince = TRUE]
       ELSE hist

\* The time of the last progress event, whether it came sooner after the one
\* before it than the throttle interval of its call (sooner), whether reset() was
\* called between the two (resetBetween) or since the last (resetSince), and the
\* current price of the last start event.
NoProgress ==
  [last |-> <<>>, sooner |-> FALSE, resetBetween |-> FALSE, resetSince |-> FALSE,
   startPrice |-> <<>>]

recordProgress(hist, events, wasReset, throttleSeconds) ==
  LET starts == eventsOfType(events, "start")
      progress == eventsOfType(events, "progress")
      h == IF starts # <<>> THEN [hist EXCEPT !.startPrice = Last(starts).currentPrice]
           ELSE hist
  IN IF progress # <<>>
     THEN [h EXCEPT !.last = << progress[1].timestamp >>,
                    !.sooner = hist.last # <<>>
                               /\ progress[1].timestamp - hist.last[1] < throttleSeconds,
                    !.resetBetween = hist.last # <<>> /\ hist.resetSince,
                    !.resetSince = FALSE]
     ELSE IF wasReset /\ hist.last # <<>>
          THEN [h EXCEPT !.resetSince = TRUE]
          ELSE h

\* ------------------------------------------------------------------ scheduler inputs
GridTimes == { 8 * k : k \in 0 .. MaxGrid }

FakeConfigs ==
  { <<>>,
    << [timeWindow |-> <<0, 8>>, magnitude |-> 1, reversalSpeed |-> 4] >>,
    << [timeWindow |-> <<16, 24>>, magnitude |-> -1, reversalSpeed |-> 6] >>,
    << [timeWindow |-> <<0, 8>>, magnitude |-> 1, reversalSpeed |-> 4],
       [timeWindow |-> <<30, 32>>, magnitude |-> 2, reversalSpeed |-> 2] >> }

mkScenario(duration, type, lo, hi, magnitude, speed, fakes) ==
  [startPrice |-> 10000, duration |-> duration,
   breakout |-> [type |-> type, timeWindow |-> <<lo, hi>>, magnitude |-> magnitude,
                 speed |-> speed, preWarning |-> 0, notification |-> FALSE],
   spread |-> [base |-> 20],
   advanced |-> [fakeBreakouts |-> fakes]]

\* App.createScenarioForLevel(level), isBullish being Math.random() > 0.5: the
\* preset of the type with its breakout replaced by one of magnitude
\* max(0.3, 1.5 - level * 0.1) percent, the same for both types, in the window
\* [15, 45 - min(level * 2, 20)] s, and a duration of 60 s.  The replacing object
\* has no preWarning.
createScenarioForLevel(level, isBullish) ==
  LET magnitudeTenths == Max(3, 15 - level)
      timeWindow == <<30, 90 - 2 * Min(level * 2, 20)>>
      breakout == [type |-> IF isBullish THEN "bullish" ELSE "bearish",
                   timeWindow |-> timeWindow, magnitude |-> magnitudeTenths \div 5,
                   speed |-> "gradual", preWarning |-> 0, notification |-> FALSE]
  IN IF isBullish
     THEN [createBullishBreakout EXCEPT !.breakout = breakout, !.duration = 120]
     ELSE [createBearishBreakout EXCEPT !.breakout = breakout, !.duration = 120]

\* The level whose magnitude, 1.0 %, is a whole number of the model's steps.
AppScenarios == { createScenarioForLevel(5, isBullish) : isBullish \in BOOLEAN }

\* ------------------------------------------------------------------ App
\* const level = DIFFICULTY_LEVELS.findIndex(l => xp < l.xpRequired) - 1;
\* Math.max(0, level === -2 ? DIFFICULTY_LEVELS.length - 1 : level)
currentLevelIndex(xp) ==
  LET xpRequired == <<0, 50, 150, 300, 500, 800>>
      below == { i \in 1 .. Len(xpRequired) : xp < xpRequired[i] }
      findIndex == IF below = {}
                   THEN -1
                   ELSE (CHOOSE i \in below : \A j \in below : i <= j) - 1
      level == findIndex - 1
  IN Max(0, IF level = -2 THEN Len(xpRequired) - 1 ELSE level)

\* The App of a specification that mounts none.
NoApp ==
  [xp |-> 0, isPaused |-> FALSE, memoryChallenge |-> FALSE, priceModel |-> <<>>,
   pending |-> {}, started |-> 0]

\* The effect of a render with a new xp: one more loadModel call, which waits for
\* fetch() with the xp and the level index of that render; nothing is done about
\* the calls still waiting.
loadStarted(a, xp) ==
  [a EXCEPT !.xp = xp,
            !.started = @ + 1,
            !.pending = @ \cup {[id |-> a.started + 1, xp |-> xp,
                                 currentLevelIndex |-> currentLevelIndex(xp),
                                 stage |-> "fetch"]}]

\* new PriceModel(quoteModel, createScenarioForLevel(currentLevelIndex + 1)) with its
\* 'start' listener, then setPriceModel(pm): the call is over. The model is kept by
\* the call that made it, its data (or none), and the level and type of its scenario.
modelSet(a, load, data, isBullish) ==
  [a EXCEPT !.priceModel =
              << [load |-> load.id, xp |-> load.xp, data |-> data,
                  level |-> load.currentLevelIndex + 1,
                  breakoutType |-> IF isBullish THEN "bullish" ELSE "bearish",
                  startListeners |-> 1, updates |-> 0] >>,
            !.pending = @ \ {load}]

Presets ==
  { createBullishBreakout, createBearishBreakout, createFakeBreakoutScenario,
    createRangingScenario }

\* Scenarios of 20 s (40 ticks) with every window on the grid, the presets, and
\* scenarios of 50 s with a breakout of 5 %.
\* schedule() reads the breakout type only to tell none from the others.
SchedScenarios ==
  Presets
  \cup { mkScenario(40, tm[1], lo, hi, tm[2], sp, fk) :
           tm \in { <<"bullish", 1>>, <<"bearish", -2>> },
           lo \in GridTimes, hi \in GridTimes,
           sp \in {"instant", "gradual", "accelerating"},
           fk \in FakeConfigs }
  \cup { mkScenario(40, "none", 0, 0, 0, "gradual", fk) : fk \in FakeConfigs }
  \cup { mkScenario(100, "bearish", 8, 16, -10, sp, <<>>) :
           sp \in {"instant", "gradual", "accelerating"} }
  \cup AppScenarios

\* schedule() on a fresh or reset scheduler takes any scenario whose window is
\* ordered; on a scheduler that already holds a scenario the model re-schedules
\* with one of two presets.
scheduleInputs ==
  IF schedScenario = <<>>
  THEN { s \in SchedScenarios : s.breakout.timeWindow[1] <= s.breakout.timeWindow[2] }
  ELSE { createRangingScenario, createBullishBreakout }

\* The draws one schedule() call makes: one for the main breakout when the type is
\* not none, then one per fake breakout.
mainDraws(scenario) == IF scenario.breakout.type = "none" THEN {0} ELSE Draws
fakeDraws(scenario) == [1 .. Len(scenario.advanced.fakeBreakouts) -> Draws]

\* The engine is run with the smallest and the largest draw.
ExtremeDraws == {0, RandomSteps}
engineMainDraws(scenario) == IF scenario.breakout.type = "none" THEN {0} ELSE ExtremeDraws
engineFakeDraws(scenario) == [1 .. Len(scenario.advanced.fakeBreakouts) -> ExtremeDraws]

LookupTimes(duration) == {duration - 1} \cup { duration + k * MaxOver : k \in 0 .. 2 }

\* ------------------------------------------------------------------ scheduler actions
freshScheduler ==
  /\ timeline = <<>>
  /\ schedScenario = <<>>
  /\ breakoutEvent = <<>>
  /\ lookup = <<>>

freshNotifier ==
  /\ notifier = newNotifier
  /\ emitted = <<>>
  /\ call = NoCall
  /\ startEvents = 0
  /\ warnHist = NoWarnings
  /\ progressHist = NoProgress
  /\ resetPending = FALSE
  /\ dispatch = NoDispatch

\* No PriceModel is constructed.
noEngine ==
  /\ quoteModel = emptyQuoteModel
  /\ generator = newGenerator(0, 0)
  /\ priceModel = <<>>
  /\ step = NoStep
  /\ pushed = <<>>
  /\ sample = NoSample
  /\ poisson = NoPoisson

InitSched ==
  /\ freshScheduler
  /\ freshNotifier
  /\ listeners = noListeners
  /\ noEngine
  /\ now = 0
  /\ lastOp = "new"
  /\ app = NoApp

\* schedule(scenario)
Schedule ==
  \E s \in scheduleInputs :
   \E r \in mainDraws(s), fr \in fakeDraws(s) :
    /\ LET event == scheduleBreakoutEvent(breakoutEvent, s, r)
       IN /\ schedScenario' = <<s>>
          /\ breakoutEvent' = event
          /\ timeline' = scheduleTimeline(s, event, fr)
    /\ lookup' = <<>>
    /\ lastOp' = "schedule"
    /\ UNCHANGED <<notifierVars, engineVars, app, now>>

\* reset()
SchedulerReset ==
  /\ timeline' = <<>>
  /\ schedScenario' = <<>>
  /\ breakoutEvent' = <<>>
  /\ lookup' = <<>>
  /\ lastOp' = "reset"
  /\ UNCHANGED <<notifierVars, engineVars, app, now>>

\* getCurrentRegime(elapsedTime)
GetCurrentRegime ==
  /\ schedScenario # <<>>
  /\ \E t \in LookupTimes(schedScenario[1].duration) :
       lookup' = << [t |-> t, result |-> getCurrentRegime(timeline, t)] >>
  /\ lastOp' = "getCurrentRegime"
  /\ UNCHANGED <<timeline, schedScenario, breakoutEvent, notifierVars, engineVars, app,
               now>>

NextSched == Schedule \/ SchedulerReset \/ GetCurrentRegime

SpecSched == InitSched /\ [][NextSched]_vars

\* ------------------------------------------------------------------ engine inputs
\* A data file whose ranging buckets move the price both ways, by whole and by
\* half cents, with a zero and a negative spread bin, a zero size bin and a
\* zero-weight first entry; its breakout buckets move with the sign.
movingQuoteModel ==
  [transition |->
     ( <<"N", "O", "F">> :>
         << [dpBin |-> 2, spBin |-> 3, szBin |-> 1, weight |-> 0],
            [dpBin |-> -3, spBin |-> -1, szBin |-> 0, weight |-> 1] >>
       @@ <<"N", "O", "U">> :>
         << [dpBin |-> 2, spBin |-> 0, szBin |-> 3, weight |-> 5] >>
       @@ <<"N", "O", "D">> :>
         << [dpBin |-> -1, spBin |-> 1, szBin |-> 1, weight |-> 1] >>
       @@ <<"N", "B", "U">> :>
         << [dpBin |-> 4, spBin |-> -1, szBin |-> 2, weight |-> 1] >>
       @@ <<"N", "B", "D">> :>
         << [dpBin |-> -4, spBin |-> 2, szBin |-> 2, weight |-> 1] >> ),
   ticksPerRegime |-> ( <<"N", "O">> :> 1 @@ <<"N", "B">> :> 3 ),
   secondsPerRegime |-> ( <<"N", "O">> :> 2 @@ <<"N", "B">> :> 1 )]

QuoteModels == { emptyQuoteModel, movingQuoteModel }

\* A 0.5 % instant breakout at 0.5 s to 1 s of a 4 s scenario, warned 1 s ahead.
shortBreakout(type, magnitude) ==
  [mkScenario(8, type, 1, 2, magnitude, "instant", <<>>)
     EXCEPT !.breakout.preWarning = 2, !.breakout.notification = TRUE]

\* A fake breakout at 0.5 s (12.5 s, then 1 s of reversal) and an instant 1 %
\* primary at 15 s of an 18 s scenario, warned 2 s ahead.
fakeThenPrimary ==
  [mkScenario(36, "bullish", 30, 31, 2, "instant",
              << [timeWindow |-> <<1, 2>>, magnitude |-> 1, reversalSpeed |-> 2] >>)
     EXCEPT !.breakout.preWarning = 4, !.breakout.notification = TRUE]

\* Fake breakouts only.
fakeOnly ==
  mkScenario(36, "none", 0, 0, 0, "gradual",
             << [timeWindow |-> <<1, 2>>, magnitude |-> 1, reversalSpeed |-> 2] >>)

\* The scenarios, windows and last clock value the model runs a data file with.
engineScenarios(model) ==
  IF model = emptyQuoteModel
  THEN { fakeThenPrimary, fakeOnly, createRangingScenario, shortBreakout("bullish", 1) }
  ELSE { shortBreakout("bullish", 1), shortBreakout("bearish", -1),
         mkScenario(8, "none", 0, 0, 0, "gradual", <<>>) }

engineWindows(model) == IF model = emptyQuoteModel THEN {5} ELSE {1}

lastClock(model) == IF model = emptyQuoteModel THEN MaxNow ELSE MaxMovingNow

\* The clock advances by 0.5 s or 1.5 s between two engine calls.
StepTicks == {1, 3}

\* ------------------------------------------------------------------ notifier actions
\* The notifier on its own, called in any order while the clock advances.
InitNotifier ==
  /\ freshScheduler
  /\ freshNotifier
  /\ listeners = noListeners
  /\ noEngine
  /\ now = 0
  /\ lastOp = "new"
  /\ app = NoApp

\* One call: the notifier and the emitted events are replaced by the call's
\* result; the observation variables record the call.
notifierCall(op, args, res, wasReset) ==
  /\ notifier' = res.n
  /\ emitted' = res.out
  /\ listeners' = emitAll(listeners, res.out, NoDispatch).listeners
  /\ dispatch' = dispatchOf(emitAll(listeners, res.out, NoDispatch))
  /\ call' = [op |-> op, args |-> args, pre |-> notifier, at |-> now,
              resetPending |-> resetPending, listeners |-> listeners]
  /\ startEvents' = countStarts(startEvents, res.out, wasReset)
  /\ warnHist' = recordWarnings(warnHist, res.out, wasReset)
  /\ progressHist' = recordProgress(progressHist, res.out, wasReset,
                                    IF op = "notifyProgress" THEN args.throttleSeconds ELSE 0)
  /\ resetPending' = (wasReset \/ (resetPending /\ op # "notifyBreakoutStart"))
  /\ lastOp' = op
  /\ UNCHANGED <<schedVars, engineVars, app, now>>

\* performance.now() advances between calls.
Tick ==
  /\ now < MaxNotifierNow
  /\ now' = now + 1
  /\ UNCHANGED <<schedVars, notifierVars, engineVars, app, lastOp>>

ScheduleWarning ==
  \E currentTime \in {0, 3, 5, 6, 8}, warningLead \in {2, 4} :
    notifierCall("scheduleWarning",
                 [breakoutTime |-> 6, currentTime |-> currentTime,
                  warningLead |-> warningLead],
                 scheduleWarning(notifier, now, 6, currentTime, warningLead, "bullish", 2),
                 FALSE)

NotifyBreakoutStart ==
  \E currentPrice \in {10000, 10040} :
    notifierCall("notifyBreakoutStart",
                 [currentPrice |-> currentPrice, targetPrice |-> 10100],
                 notifyBreakoutStart(notifier, now, "bullish", currentPrice, 10100, 2, 30),
                 FALSE)

\* currentPrice, targetPrice and throttleSeconds of the notifyProgress calls.
ProgressInputs ==
  { <<9990, 10100, 2>>, <<10050, 10100, 2>>, <<10120, 10100, 2>>, <<10050, 10040, 2>>,
    <<10050, 10100, 3>> }

NotifyProgress ==
  \E in \in ProgressInputs :
   LET currentPrice == in[1]
       targetPrice == in[2]
       throttleSeconds == in[3]
   IN
    notifierCall("notifyProgress",
                 [currentPrice |-> currentPrice, targetPrice |-> targetPrice,
                  throttleSeconds |-> throttleSeconds],
                 notifyProgress(notifier, now, "bullish", currentPrice, targetPrice,
                                throttleSeconds),
                 FALSE)

NotifyBreakoutCompletion ==
  \E currentPrice \in {10100} :
    notifierCall("notifyBreakoutCompletion",
                 [currentPrice |-> currentPrice, targetPrice |-> 10100],
                 notifyBreakoutCompletion(notifier, now, "bullish", currentPrice, 10100, 2),
                 FALSE)

NotifierReset ==
  notifierCall("reset", <<>>, [n |-> notifierReset(notifier), out |-> <<>>], TRUE)

NextNotifier ==
  \/ Tick
  \/ ScheduleWarning
  \/ NotifyBreakoutStart
  \/ NotifyProgress
  \/ NotifyBreakoutCompletion
  \/ NotifierReset

SpecNotifier == InitNotifier /\ [][NextNotifier]_vars

\* ------------------------------------------------------------------ listener actions
\* The notifier with listeners registered and removed between its operations.
InitListeners ==
  /\ freshScheduler
  /\ freshNotifier
  /\ listeners = noListeners
  /\ noEngine
  /\ now = 0
  /\ lastOp = "new"
  /\ app = NoApp

\* A registry operation: the listeners change, nothing is emitted or dispatched.
registryCall(op, ls) ==
  /\ listeners' = ls
  /\ emitted' = <<>>
  /\ dispatch' = NoDispatch
  /\ call' = [op |-> op, args |-> <<>>, pre |-> notifier, at |-> now,
              resetPending |-> resetPending, listeners |-> ls]
  /\ lastOp' = op
  /\ UNCHANGED <<schedVars, engineVars, app, now, notifier, startEvents, warnHist,
                 progressHist, resetPending>>

\* The event types the model registers single listeners for.
ListenedTypes == {"start", "completion"}

registered(ls) == Len(ls["start"]) + Len(ls["completion"])

On ==
  \E eventType \in ListenedTypes, callback \in Callbacks :
    /\ registered(listeners) < MaxListeners
    /\ registryCall("on", on(listeners, eventType, callback))

OnAny ==
  \E callback \in Callbacks :
    /\ registered(listeners) + 2 <= MaxListeners
    /\ Len(listeners["warning"]) < MaxAny
    /\ registryCall("onAny", onAny(listeners, callback))

Off ==
  \E eventType \in ListenedTypes, callback \in Callbacks :
    registryCall("off", off(listeners, eventType, callback))

ClearListeners == registryCall("clearListeners", clearListeners(listeners))

NextListeners ==
  \/ On
  \/ OnAny
  \/ Off
  \/ ClearListeners
  \/ NotifyBreakoutStart
  \/ NotifyBreakoutCompletion

SpecListeners == InitListeners /\ [][NextListeners]_vars

\* ------------------------------------------------------------------ engine actions
\* new PriceModel(quoteModel, scenario, 0.01, windowSeconds) at clock 0.
Init ==
  \E model \in QuoteModels :
   \E s \in engineScenarios(model), w \in engineWindows(model) :
    \E r \in engineMainDraws(s), fr \in engineFakeDraws(s) :
     /\ quoteModel = model
     /\ schedScenario = <<s>>
     /\ breakoutEvent = scheduleBreakoutEvent(<<>>, s, r)
     /\ timeline = scheduleTimeline(s, scheduleBreakoutEvent(<<>>, s, r), fr)
     /\ lookup = <<>>
     /\ freshNotifier
     /\ listeners = on(noListeners, "start", "log")
     /\ generator = newGenerator(s.startPrice, s.startPrice + s.spread.base)
     /\ priceModel = newPriceModel(s, w, 0)
     /\ step = NoStep
     /\ pushed = <<>>
     /\ sample = NoSample
     /\ poisson = NoPoisson
     /\ now = 0
     /\ lastOp = "new"
     /\ app = NoApp

\* update(), dt after the last engine call; the model follows a scenario up to
\* MaxOver ticks past its duration.
Update ==
  \E dt \in StepTicks :
    /\ now + dt <= lastClock(quoteModel)
    /\ now + dt - priceModel.startTime <= priceModel.scenario.duration + MaxOver
    /\ LET t == now + dt
           elapsedTime == t - priceModel.startTime
           current == getCurrentRegime(timeline, elapsedTime)
           h == handleBreakoutNotifications(priceModel, notifier, timeline,
                                            breakoutEvent, elapsedTime, t)
       IN \E second \in stepSecond(quoteModel, generator, current.regime, current.sign,
                                     current.targetPrice) :
          \E mid \in IF Len(second.ticks) > 0
                      THEN getVolumeWeightedMid(second.g, Last(second.ticks).sizeBid,
                                                Last(second.ticks).sizeAsk)
                      ELSE {Last(priceModel.buffer).mid} :
           LET res == [g |-> second.g, ticks |-> second.ticks, mid |-> mid]
           IN
            /\ now' = t
            /\ notifier' = h.n
            /\ emitted' = h.out
            /\ startEvents' = countStarts(startEvents, h.out, FALSE)
            /\ warnHist' = recordWarnings(warnHist, h.out, FALSE)
            /\ progressHist' = NoProgress
            /\ resetPending' = (resetPending /\ ~h.startCalled)
            /\ listeners' = emitAll(listeners, h.out, NoDispatch).listeners
            /\ dispatch' = dispatchOf(emitAll(listeners, h.out, NoDispatch))
            /\ generator' = res.g
            /\ priceModel' = updated(priceModel, h, res, elapsedTime)
            /\ step' = [ticks |-> res.ticks,
                        inBreakout |-> isInBreakout(timeline, elapsedTime),
                        prevInBreakout |-> step.inBreakout,
                        handled |-> h.handled,
                        wasStarted |-> priceModel.hasNotifiedBreakoutStart,
                        startCalled |-> h.startCalled,
                        completionCalled |-> h.completionCalled,
                        currentPrice |-> priceModel.bestBid]
            /\ pushed' = recordPushed(pushed, stepEntry(priceModel, res.mid, res.ticks),
                                      priceModel.maxBufferSize)
    /\ lastOp' = "update"
    /\ call' = NoCall
    /\ UNCHANGED <<schedVars, quoteModel, sample, poisson, app>>

\* resetWithScenario(scenario), at the clock of the last engine call
ResetWithScenario ==
  \E s \in engineScenarios(quoteModel) :
   \E r \in engineMainDraws(s), fr \in engineFakeDraws(s) :
    /\ schedScenario' = <<s>>
    /\ breakoutEvent' = scheduleBreakoutEvent(<<>>, s, r)
    /\ timeline' = scheduleTimeline(s, scheduleBreakoutEvent(<<>>, s, r), fr)
    /\ lookup' = <<>>
    /\ notifier' = notifierReset(notifier)
    /\ emitted' = <<>>
    /\ startEvents' = countStarts(startEvents, <<>>, TRUE)
    /\ warnHist' = recordWarnings(warnHist, <<>>, TRUE)
    /\ progressHist' = NoProgress
    /\ resetPending' = TRUE
    /\ generator' = newGenerator(s.startPrice, s.startPrice + s.spread.base)
    /\ priceModel' = resetWithScenario(priceModel, s, now)
    /\ step' = NoStep
    /\ pushed' = <<>>
    /\ dispatch' = NoDispatch
    /\ call' = [op |-> "resetWithScenario", args |-> <<s>>, pre |-> notifier, at |-> now,
                resetPending |-> resetPending, listeners |-> listeners]
    /\ lastOp' = "resetWithScenario"
    /\ UNCHANGED <<quoteModel, listeners, now, sample, poisson, app>>

Next == Update \/ ResetWithScenario

Spec == Init /\ [][Next]_vars

\* ------------------------------------------------------------------ generator actions
\* A QuoteModel and a QuoteGenerator on their own.
\* A data file with an empty bucket set, a bucket set of zero weights only, one
\* whose first weight is zero, a move of 4 cents, a regime of rate zero and one
\* whose rate makes exp(-lambda) underflow.
sparseQuoteModel ==
  [transition |->
     ( <<"N", "O", "F">> :> << >>
       @@ <<"N", "O", "U">> :>
         << [dpBin |-> 2, spBin |-> 3, szBin |-> 1, weight |-> 0],
            [dpBin |-> -1, spBin |-> 1, szBin |-> 2, weight |-> 0] >>
       @@ <<"N", "B", "U">> :>
         << [dpBin |-> 1, spBin |-> 2, szBin |-> 1, weight |-> 0],
            [dpBin |-> 4, spBin |-> 1, szBin |-> 2, weight |-> 3] >>
       @@ <<"N", "O", "D">> :>
         << [dpBin |-> -8, spBin |-> 1, szBin |-> 1, weight |-> 1] >> ),
   ticksPerRegime |-> ( <<"N", "O">> :> 1 @@ <<"N", "B">> :> 0 @@ <<"H", "O">> :> 1500 ),
   secondsPerRegime |-> ( <<"N", "O">> :> 2 @@ <<"N", "B">> :> 1 @@ <<"H", "O">> :> 1 )]

SampleModels == { emptyQuoteModel, movingQuoteModel, sparseQuoteModel }
SampleRegimes == { <<"N", "O">>, <<"N", "B">>, <<"H", "O">>, <<"L", "O">> }
Signs == { "U", "D", "F" }
\* No target; targets 0.09 %, 0.1 %, 1 % and 10 % above the starting bid and 10 %
\* below it.
SampleTargets == { <<>>, <<10009>>, <<10010>>, <<10100>>, <<11000>>, <<9000>> }

\* new QuoteModel(data); new QuoteGenerator(model, 10, 10.02)
InitQuote ==
  \E model \in SampleModels :
    /\ freshScheduler
    /\ freshNotifier
    /\ listeners = noListeners
    /\ quoteModel = model
    /\ generator = newGenerator(10000, 10020)
    /\ priceModel = <<>>
    /\ step = NoStep
    /\ pushed = <<>>
    /\ sample = NoSample
    /\ poisson = NoPoisson
    /\ now = 0
    /\ lastOp = "new"
    /\ app = NoApp

quoteFrame ==
  UNCHANGED <<schedVars, notifierVars, quoteModel, priceModel, step, pushed, now, app>>

\* model.sampleTick(regime, sign)
SampleTick ==
  \E regime \in SampleRegimes, sign \in Signs :
   \E t \in sampleTick(quoteModel, regime, sign) :
    /\ ~poisson.active
    /\ sample' = [op |-> "sampleTick", regime |-> regime, sign |-> sign,
                  targetPrice |-> <<>>, before |-> generator, result |-> <<t>>,
                  stepped |-> sample.stepped]
    /\ poisson' = NoPoisson
    /\ lastOp' = "sampleTick"
    /\ UNCHANGED generator
    /\ quoteFrame

\* generator.stepSecond(ts, regime, sign, targetPrice), the first step of the
\* generator
StepSecond ==
  \E regime \in SampleRegimes, sign \in Signs, targetPrice \in SampleTargets :
   \E res \in stepSecond(quoteModel, generator, regime, sign, targetPrice) :
    /\ ~poisson.active
    /\ ~sample.stepped
    /\ generator' = res.g
    /\ sample' = [op |-> "stepSecond", regime |-> regime, sign |-> sign,
                  targetPrice |-> targetPrice, before |-> generator,
                  result |-> res.ticks, stepped |-> TRUE]
    /\ poisson' = NoPoisson
    /\ lastOp' = "stepSecond"
    /\ quoteFrame

\* model.sampleNbUpdates(regime), up to the loop of poissonSample
SampleNbUpdates ==
  \E regime \in SampleRegimes :
    /\ ~poisson.active
    /\ poisson' = poissonStart(quoteModel, regime)
    /\ sample' = [NoSample EXCEPT !.stepped = sample.stepped]
    /\ lastOp' = "sampleNbUpdates"
    /\ UNCHANGED generator
    /\ quoteFrame

\* A pass of the loop whose draw takes the product below the threshold under it
\* (down to 0: Math.random() can return 0, and a product can underflow).
PoissonLower ==
  \E q \in 0 .. poisson.p - 1 :
    /\ poisson.active
    /\ poisson' = poissonPass(poisson, q)
    /\ lastOp' = "poissonLower"
    /\ UNCHANGED <<generator, sample>>
    /\ quoteFrame

\* A pass of the loop whose draw leaves the product above the threshold under it:
\* a draw close to 1, or one of at least 1/2 when the product is the least
\* positive double and rounds back to itself.
PoissonKeep ==
  /\ poisson.active
  /\ poisson.p > 0
  /\ poisson' = poissonPass(poisson, poisson.p)
  /\ lastOp' = "poissonKeep"
  /\ UNCHANGED <<generator, sample>>
  /\ quoteFrame

NextQuote == SampleTick \/ StepSecond \/ SampleNbUpdates \/ PoissonLower \/ PoissonKeep

SpecQuote == InitQuote /\ [][NextQuote]_vars

\* Math.random() returns a value below 1/2 again and again: the pass that lowers
\* the product is taken in the end.
SpecQuoteFair == SpecQuote /\ WF_vars(PoissonLower)

\* ------------------------------------------------------------------ App
\* The App after its first render and effects: loadModel is called for the xp read
\* from localStorage.
InitApp ==
  \E saved \in {0, 45} :
    /\ freshScheduler
    /\ freshNotifier
    /\ listeners = noListeners
    /\ noEngine
    /\ now = 0
    /\ lastOp = "mount"
    /\ app = loadStarted(NoApp, saved)

\* processSignalResponse on a live signal: setXp(prev => prev + earnedXP) for a
\* response within the window (5 perfect, 3 good), and every tenth trade a memory challenge that
\* pauses the game. The effect of the next render calls loadModel when xp changed.
ProcessSignalResponse ==
  \E earnedXP \in {5, 3, 0}, challenge \in BOOLEAN :
    /\ app.priceModel # <<>>
    /\ ~app.isPaused
    /\ earnedXP > 0 => app.started < MaxLoads
    /\ app' = [(IF earnedXP > 0 THEN loadStarted(app, app.xp + earnedXP) ELSE app)
                 EXCEPT !.memoryChallenge = @ \/ challenge,
                        !.isPaused = @ \/ challenge]
    /\ lastOp' = "processSignalResponse"
    /\ UNCHANGED <<schedVars, notifierVars, engineVars, now>>

\* handleChallengeAnswer: setXp(prev => prev + 10) for the correct answer; the
\* challenge is over and the game goes on.
HandleChallengeAnswer ==
  \E correct \in BOOLEAN :
    /\ app.memoryChallenge
    /\ correct => app.started < MaxLoads
    /\ app' = [(IF correct THEN loadStarted(app, app.xp + 10) ELSE app)
                 EXCEPT !.memoryChallenge = FALSE,
                        !.isPaused = FALSE]
    /\ lastOp' = "handleChallengeAnswer"
    /\ UNCHANGED <<schedVars, notifierVars, engineVars, now>>

\* handleResetStats: setXp(0); a render follows when xp was not 0.
HandleResetStats ==
  /\ app.xp # 0
  /\ app.started < MaxLoads
  /\ app' = loadStarted(app, 0)
  /\ lastOp' = "handleResetStats"
  /\ UNCHANGED <<schedVars, notifierVars, engineVars, now>>

\* togglePause
TogglePause ==
  /\ app' = [app EXCEPT !.isPaused = ~@]
  /\ lastOp' = "togglePause"
  /\ UNCHANGED <<schedVars, notifierVars, engineVars, now>>

\* fetch() resolves with response.ok: the call waits for response.json().
FetchResolvesOk ==
  \E load \in app.pending :
    /\ load.stage = "fetch"
    /\ app' = [app EXCEPT !.pending = (@ \ {load}) \cup {[load EXCEPT !.stage = "json"]}]
    /\ lastOp' = "fetchResolvesOk"
    /\ UNCHANGED <<schedVars, notifierVars, engineVars, now>>

\* A loadModel call settles: response.json() resolved and the QuoteModel has the
\* data, or fetch() resolved without response.ok, or one of the two rejected, and
\* the QuoteModel is empty.
LoadSettles ==
  \E load \in app.pending, data \in BOOLEAN, isBullish \in BOOLEAN :
    /\ data => load.stage = "json"
    /\ app' = modelSet(app, load, data, isBullish)
    /\ lastOp' = "loadSettles"
    /\ UNCHANGED <<schedVars, notifierVars, engineVars, now>>

\* A frame of the game loop: priceModel.update() on the model of the last render.
GameLoop ==
  /\ app.priceModel # <<>>
  /\ ~app.isPaused
  /\ app.priceModel[1].updates < MaxFrames
  /\ app' = [app EXCEPT !.priceModel[1].updates = @ + 1]
  /\ lastOp' = "gameLoop"
  /\ UNCHANGED <<schedVars, notifierVars, engineVars, now>>

NextApp ==
  \/ ProcessSignalResponse
  \/ HandleChallengeAnswer
  \/ HandleResetStats
  \/ TogglePause
  \/ FetchResolvesOk
  \/ LoadSettles
  \/ GameLoop

SpecApp == InitApp /\ [][NextApp]_vars

\* ------------------------------------------------------------------ scheduler claims
scheduled == schedScenario # <<>>

\* The segments start at 0, each ends where the next starts, none is empty or
\* inverted, and the last ends at duration.
contiguous(tl, duration) ==
  /\ Len(tl) > 0
  /\ tl[1].startTime = 0
  /\ \A i \in 1 .. (Len(tl) - 1) : tl[i].endTime = tl[i + 1].startTime
  /\ \A i \in 1 .. Len(tl) : tl[i].startTime < tl[i].endTime
  /\ Last(tl).endTime = duration

\* A primary breakout, no fake breakouts, and a window 0 <= a <= b < duration.
primaryOnly(s) ==
  /\ s.advanced.fakeBreakouts = <<>>
  /\ s.breakout.type # "none"
  /\ 0 <= s.breakout.timeWindow[1]
  /\ s.breakout.timeWindow[1] <= s.breakout.timeWindow[2]
  /\ s.breakout.timeWindow[2] < s.duration

\* C1: for a scenario with no fake breakouts and a primary breakout whose window
\* [a,b] has 0 <= a <= b < duration, the scheduled timeline starts at 0, is
\* contiguous, has no empty segment and ends exactly at duration.
C1_PrimaryTimelineContiguous ==
  (scheduled /\ primaryOnly(schedScenario[1]))
    => contiguous(timeline, schedScenario[1].duration)

\* C1 witness: such a scenario scheduled as a breakout from time 0 that is cut at
\* duration, followed by nothing, in two segments.
C1_Witness ==
  /\ scheduled /\ primaryOnly(schedScenario[1])
  /\ lastOp = "schedule"
  /\ Len(timeline) = 2
  /\ timeline[2].regime = <<"N", "B">>
  /\ timeline[2].endTime = schedScenario[1].duration
  /\ timeline[2].endTime - timeline[2].startTime
       < calculateBreakoutDuration(schedScenario[1].breakout.speed,
                                   Abs(schedScenario[1].breakout.magnitude))

\* C16: for a scheduled scenario whose breakout type is not none the recorded
\* BreakoutEvent has targetPrice = startPrice * (1 + magnitude/100) and, when the
\* window [min,max] has min < max, a startTime with min <= startTime < max.
C16_EventTargetAndStartInWindow ==
  (scheduled /\ schedScenario[1].breakout.type # "none") =>
    LET s == schedScenario[1]
    IN /\ breakoutEvent # <<>>
       /\ 200 * breakoutEvent[1].targetPrice = s.startPrice * (200 + s.breakout.magnitude)
       /\ s.breakout.timeWindow[1] < s.breakout.timeWindow[2] =>
            /\ s.breakout.timeWindow[1] <= breakoutEvent[1].startTime
            /\ breakoutEvent[1].startTime < s.breakout.timeWindow[2]

\* clamp(x, lo, hi)
clamped(x, lo, hi) == IF x < lo THEN lo ELSE IF x > hi THEN hi ELSE x

\* D of the breakout configuration b, in ticks: 2 s for instant,
\* clamp(10 + 5*|magnitude|, 8, 30) s for gradual and
\* clamp(15 + 8*|magnitude|, 10, 40) s for accelerating.
statedDuration(b) ==
  IF b.speed = "instant" THEN 4
  ELSE IF b.speed = "gradual" THEN clamped(20 + 5 * Abs(b.magnitude), 16, 60)
  ELSE clamped(30 + 8 * Abs(b.magnitude), 20, 80)

C17_WitnessCut ==
  /\ scheduled /\ lastOp = "schedule"
  /\ schedScenario[1].breakout.type # "none"
  /\ breakoutEvent[1].endTime = schedScenario[1].duration
  /\ breakoutEvent[1].endTime - breakoutEvent[1].startTime
       < statedDuration(schedScenario[1].breakout)

\* A scheduled scenario of type none with no fake breakouts and duration > 0.
rangingOnly ==
  /\ scheduled
  /\ schedScenario[1].breakout.type = "none"
  /\ schedScenario[1].advanced.fakeBreakouts = <<>>
  /\ schedScenario[1].duration > 0

\* C18: for a scenario of type none with no fake breakouts and duration > 0 the
\* scheduled timeline is exactly one segment, [0, duration), with regime (Normal,
\* Outside), sign Flat and no target price, and isInBreakout is false at every
\* elapsed time, before 0 and at or after duration included.
C18_RangingScenarioIsOneSegment ==
  rangingOnly =>
    /\ Len(timeline) = 1
    /\ timeline[1].startTime = 0
    /\ timeline[1].endTime = schedScenario[1].duration
    /\ timeline[1].regime = <<"N", "O">>
    /\ timeline[1].sign = "F"
    /\ timeline[1].targetPrice = <<>>
    /\ \A t \in -2 .. schedScenario[1].duration + 2 * MaxOver :
         ~isInBreakout(timeline, t)
    /\ lookup # <<>> => lookup[1].result.regime[2] # "B"

\* C18 witness: a ranging scenario scheduled on a scheduler that holds the event
\* of an earlier breakout scenario, looked up at or after its duration.
C18_Witness ==
  /\ rangingOnly
  /\ breakoutEvent # <<>>
  /\ lookup # <<>>
  /\ lookup[1].t >= schedScenario[1].duration

segmentsAt(tl, t) == { i \in 1 .. Len(tl) : tl[i].startTime <= t /\ t < tl[i].endTime }

\* C2: for every scenario, fake breakouts included, no segment of the scheduled
\* timeline ends after duration and every time in [0, duration) lies in exactly
\* one segment (no gaps, no overlaps).
C2_TimelinePartitionsDuration ==
  scheduled =>
    /\ \A i \in 1 .. Len(timeline) : timeline[i].endTime <= schedScenario[1].duration
    /\ \A t \in 0 .. (schedScenario[1].duration - 1) :
         Cardinality(segmentsAt(timeline, t)) = 1

\* C8: a lookup at an elapsed time t >= duration returns the last segment's
\* regime, sign and target, which is also the result just below duration.
C8_LookupSaturatesAtTail ==
  (lookup # <<>> /\ lookup[1].t >= schedScenario[1].duration)
    => /\ lookup[1].result = segmentResult(Last(timeline))
       /\ lookup[1].result = getCurrentRegime(timeline, schedScenario[1].duration - 1)

\* ------------------------------------------------------------------ notifier claims
\* C4: notifyBreakoutStart called while a breakout is in progress emits nothing and
\* leaves the recorded start price unchanged; so between two completions or resets
\* at most one start event is emitted, and exactly one while in progress.
C4_DuplicateStartSuppressed ==
  /\ (call.op = "notifyBreakoutStart" /\ call.pre.breakoutInProgress)
       => /\ emitted = <<>>
          /\ notifier.breakoutStartPrice = call.pre.breakoutStartPrice
  /\ startEvents <= 1
  /\ notifier.breakoutInProgress => startEvents = 1

\* C4 witness: a second notifyBreakoutStart, with another price, while in progress.
C4_Witness ==
  /\ call.op = "notifyBreakoutStart"
  /\ call.pre.breakoutInProgress
  /\ call.args.currentPrice # call.pre.breakoutStartPrice
  /\ notifier.breakoutInProgress

\* The last call was a scheduleWarning that emitted a warning.
warned == call.op = "scheduleWarning" /\ emitted # <<>>

\* A warning is emitted only when 0 < breakoutTime - currentTime <= warningLead.
warningOnlyInLead ==
  warned => /\ 0 < call.args.breakoutTime - call.args.currentTime
            /\ call.args.breakoutTime - call.args.currentTime <= call.args.warningLead

\* scheduleWarning does the same whether the notifier is Idle or InProgress.
warningIgnoresProgress ==
  call.op = "scheduleWarning" =>
    /\ notifier.breakoutInProgress = call.pre.breakoutInProgress
    /\ emitted = scheduleWarning(
                   [call.pre EXCEPT !.breakoutInProgress = ~call.pre.breakoutInProgress],
                   call.at, call.args.breakoutTime, call.args.currentTime,
                   call.args.warningLead, "bullish", 2).out

\* C10 as stated: warnings only within the lead, any two warnings of one notifier
\* at least 1 second (2 ticks) apart, both whatever the Idle/InProgress state.
C10_AnyTwoWarningsOneSecondApart ==
  /\ warningOnlyInLead
  /\ warningIgnoresProgress
  /\ Len(warnHist.times) = 2 => warnHist.times[2] - warnHist.times[1] >= 2

\* C10 amended: warnings only within the lead, two warnings with no reset()
\* between them at least 1 second (2 ticks) apart, both whatever the
\* Idle/InProgress state.
C10_WarningsThrottledBetweenResets ==
  /\ warningOnlyInLead
  /\ warningIgnoresProgress
  /\ (Len(warnHist.times) = 2 /\ ~warnHist.resetBetween)
       => warnHist.times[2] - warnHist.times[1] >= 2

\* C10 witness: a second warning, emitted while a breakout is in progress, with
\* no reset() since the first.
C10_Witness ==
  /\ warned
  /\ notifier.breakoutInProgress
  /\ Len(warnHist.times) = 2
  /\ ~warnHist.resetBetween

\* ------------------------------------------------------------------ engine claims
stepped == lastOp = "update"

\* C3: on every engine step, exactly one start event is emitted when the step is
\* the first of a breakout episode (the scheduler reports in-breakout on it and
\* did not on the step before, or there was no step before), and none otherwise.
C3_OneStartPerEpisode ==
  stepped =>
    Len(eventsOfType(emitted, "start"))
      = (IF step.inBreakout /\ ~step.prevInBreakout THEN 1 ELSE 0)

midAt(i) == priceModel.buffer[i].mid
centreIndex == priceModel.window + 1
bufferIndexes == 1 .. Len(priceModel.buffer)

centreIsMaximum == \A i \in bufferIndexes : midAt(centreIndex) >= midAt(i)
centreIsMinimum == \A i \in bufferIndexes : midAt(centreIndex) <= midAt(i)
strictMaximumAtCentre == \A i \in bufferIndexes \ {centreIndex} : midAt(centreIndex) > midAt(i)
strictMinimumAtCentre == \A i \in bufferIndexes \ {centreIndex} : midAt(centreIndex) < midAt(i)
strictlyMonotonic ==
  \/ \A i \in bufferIndexes \ {1} : midAt(i - 1) < midAt(i)
  \/ \A i \in bufferIndexes \ {1} : midAt(i - 1) > midAt(i)

\* C5: after every update() the pivot is PivotHigh if the mid at the centre index
\* is the maximum mid of the buffer, otherwise PivotLow if it is the minimum,
\* otherwise none; a strict single maximum at the centre gives PivotHigh, a strict
\* single minimum gives PivotLow and a strictly monotonic buffer gives none.
C5_PivotFollowsCentre ==
  stepped =>
    /\ priceModel.pivot = (IF centreIsMaximum THEN "PH"
                           ELSE IF centreIsMinimum THEN "PL" ELSE "null")
    /\ strictMaximumAtCentre => priceModel.pivot = "PH"
    /\ strictMinimumAtCentre => priceModel.pivot = "PL"
    /\ strictlyMonotonic => priceModel.pivot = "null"

\* C5 witness: an update() after which the centre is a strict single minimum
\* between two different mids.
C5_Witness ==
  /\ stepped
  /\ strictMinimumAtCentre
  /\ midAt(1) # midAt(Len(priceModel.buffer))
  /\ priceModel.pivot = "PL"

C5_WitnessHigh == stepped /\ strictMaximumAtCentre /\ priceModel.pivot = "PH"
C5_WitnessNone == stepped /\ strictlyMonotonic /\ priceModel.pivot = "null"

\* C6: after an update() that leaves all mids of the buffer equal, the pivot is
\* none.
C6_FlatBufferHasNoPivot ==
  (stepped /\ \A i \in bufferIndexes : midAt(i) = midAt(1))
    => priceModel.pivot = "null"

\* C7: every tick of the last step has ask >= bid + 0.01, and after a step that
\* produced a tick bestAsk >= bestBid + 0.01.
C7_SpreadFloor ==
  stepped =>
    /\ \A i \in 1 .. Len(step.ticks) :
         step.ticks[i].priceAsk >= step.ticks[i].priceBid + 10
    /\ step.ticks # <<>> => priceModel.bestAsk >= priceModel.bestBid + 10

\* C9: after resetWithScenario(s) the timeline and breakout event are those of a
\* fresh scheduler scheduling s, the notifier is idle with zero throttle times,
\* the buffer holds 2 * window + 1 entries of s's starting bid, ask and mid, the
\* generator's bid and ask are s.startPrice and s.startPrice + s.spread.base, the
\* pivot is none, the elapsed time is 0 and the started flag is clear.
C9_ResetReplacesEverything ==
  lastOp = "resetWithScenario" =>
    LET s == call.args[1]
        bid == s.startPrice
        ask == s.startPrice + s.spread.base
    IN /\ \E r \in engineMainDraws(s), fr \in engineFakeDraws(s) :
            /\ breakoutEvent = scheduleBreakoutEvent(<<>>, s, r)
            /\ timeline = scheduleTimeline(s, scheduleBreakoutEvent(<<>>, s, r), fr)
       /\ s.breakout.type = "none" => breakoutEvent = <<>>
       /\ ~notifier.breakoutInProgress
       /\ notifier.lastWarningTime = 0 /\ notifier.lastProgressTime = 0
       /\ Len(priceModel.buffer) = 2 * priceModel.window + 1
       /\ \A i \in bufferIndexes :
            priceModel.buffer[i] = [bid |-> bid, ask |-> ask, mid |-> 4 * (bid + ask)]
       /\ generator.bid = bid /\ generator.ask = ask
       /\ priceModel.pivot = "null"
       /\ priceModel.elapsedTime = 0
       /\ ~priceModel.hasNotifiedBreakoutStart

\* C9 witness: a reset to a scenario without breakout, of an engine that had
\* signalled a start, whose notifier was in progress and throttled, and whose
\* prices had moved.
C9_Witness ==
  /\ lastOp = "resetWithScenario"
  /\ call.args[1].breakout.type = "none"
  /\ call.pre.breakoutInProgress
  /\ call.pre.lastProgressTime > 0
  /\ priceModel.lastExchangeQuotes # <<>>
  /\ priceModel.startTime > 0

\* p thousandths is clamp((currentPrice - startPrice) / (targetPrice - startPrice), 0, 1)
\* cut to a whole thousandth, and 0 when targetPrice = startPrice.
isClampedRatio(p, currentPrice, targetPrice, startPrice) ==
  LET total == targetPrice - startPrice
      move == currentPrice - startPrice
  IN IF total = 0 \/ move * total <= 0 THEN p = 0
     ELSE IF Abs(move) >= Abs(total) THEN p = 1000
     ELSE p * Abs(total) <= 1000 * Abs(move) /\ 1000 * Abs(move) < (p + 1) * Abs(total)

progressEmitted == lastOp = "notifyProgress" /\ emitted # <<>>

progressWhileInProgress ==
  progressEmitted =>
    /\ call.pre.breakoutInProgress
    /\ Len(emitted) = 1 /\ emitted[1].type = "progress"

progressValueClamped ==
  progressEmitted =>
    /\ progressHist.startPrice # <<>>
    /\ emitted[1].progress[1] \in 0 .. 1000
    /\ isClampedRatio(emitted[1].progress[1], call.args.currentPrice,
                      call.args.targetPrice, progressHist.startPrice[1])
    /\ call.args.targetPrice = progressHist.startPrice[1] => emitted[1].progress[1] = 0

\* C11 as stated: notifyProgress emits a progress event only while the notifier
\* is InProgress, never sooner after the previous progress event than the
\* throttle interval, and with the progress value clamp((currentPrice -
\* startPrice) / (targetPrice - startPrice), 0, 1) for the price of the accepted
\* start, 0 when targetPrice = startPrice.
C11_ProgressThrottledAndClamped ==
  /\ progressWhileInProgress
  /\ progressValueClamped
  /\ ~progressHist.sooner

\* C11 amended: the same, the throttle holding between two progress events with
\* no reset() between them.
C11_ProgressThrottledBetweenResets ==
  /\ progressWhileInProgress
  /\ progressValueClamped
  /\ ~progressHist.resetBetween => ~progressHist.sooner

\* C11 witness: a second progress event with no reset() since the first, half way
\* to the target.
C11_Witness ==
  /\ progressEmitted
  /\ call.pre.lastProgressTime > 0
  /\ ~progressHist.resetBetween
  /\ emitted[1].progress = <<500>>

\* C12: notifyBreakoutCompletion called while the notifier is Idle emits no event
\* and changes no notifier state; called while InProgress it emits exactly one
\* completion event and leaves the notifier Idle.
C12_CompletionOnlyWhileInProgress ==
  lastOp = "notifyBreakoutCompletion" =>
    /\ ~call.pre.breakoutInProgress => (emitted = <<>> /\ notifier = call.pre)
    /\ call.pre.breakoutInProgress =>
         /\ Len(emitted) = 1
         /\ emitted[1].type = "completion"
         /\ ~notifier.breakoutInProgress

\* C12 witness: a completion call on a notifier that is Idle after an earlier
\* breakout with progress.
C12_Witness ==
  /\ lastOp = "notifyBreakoutCompletion"
  /\ ~call.pre.breakoutInProgress
  /\ call.pre.breakoutStartPrice # 0
  /\ call.pre.lastProgressTime > 0
  /\ emitted = <<>>

C12_WitnessInProgress ==
  /\ lastOp = "notifyBreakoutCompletion"
  /\ call.pre.breakoutInProgress
  /\ Len(emitted) = 1

\* C15: reset(), from any state, leaves the notifier Idle with zero warning and
\* progress throttle times and zero start price and emits no event; the next
\* notifyBreakoutStart after a reset() emits a start event.
C15_ResetForcesIdle ==
  /\ lastOp = "reset" =>
       /\ ~notifier.breakoutInProgress
       /\ notifier.lastWarningTime = 0 /\ notifier.lastProgressTime = 0
       /\ notifier.breakoutStartPrice = 0
       /\ emitted = <<>>
  /\ (lastOp = "notifyBreakoutStart" /\ call.resetPending) =>
       /\ Len(emitted) = 1 /\ emitted[1].type = "start"
       /\ notifier.breakoutInProgress

\* C15 witness: the first notifyBreakoutStart after a reset() of a notifier that
\* was InProgress, called after other operations.
C15_Witness ==
  /\ lastOp = "notifyBreakoutStart"
  /\ call.resetPending
  /\ call.pre.lastWarningTime > 0
  /\ progressHist.resetSince
  /\ emitted # <<>>

C15_WitnessReset ==
  /\ lastOp = "reset"
  /\ call.pre.breakoutInProgress
  /\ call.pre.lastWarningTime > 0 /\ call.pre.lastProgressTime > 0

\* ------------------------------------------------------------------ C13, C14
\* The invocations a dispatch over the registrations ls owes the events: for each
\* event in order, one per registration for its type, in registration order.
RECURSIVE deliveries(_, _)
deliveries(ls, events) ==
  IF events = <<>>
  THEN <<>>
  ELSE [i \in 1 .. Len(ls[events[1].type]) |->
          [callback |-> ls[events[1].type][i], type |-> events[1].type]]
       \o deliveries(ls, Tail(events))

\* C13: the invocations made by a notify call are exactly, for each event it
\* emitted, the listeners registered for the event's type when the call began,
\* one invocation per registration, in registration order; listeners of other
\* types are not invoked.
C13_DeliveredToRegisteredInOrder == dispatch.log = deliveries(call.listeners, emitted)

\* The invocations of one callback in the last dispatch.
invocationsOf(callback) ==
  Cardinality({i \in 1 .. Len(dispatch.log) : dispatch.log[i].callback = callback})

\* A listener threw in the last dispatch.
listenerThrew == \E i \in 1 .. Len(dispatch.log) : dispatch.log[i].callback = "fail"

\* The notifier fields as the last operation assigns them from the state before it.
stateAsAssigned ==
  /\ lastOp = "notifyBreakoutStart" =>
       notifier = [call.pre EXCEPT !.breakoutInProgress = TRUE,
                                   !.breakoutStartPrice =
                                     IF call.pre.breakoutInProgress THEN @
                                     ELSE call.args.currentPrice]
  /\ lastOp = "notifyBreakoutCompletion" =>
       notifier = [call.pre EXCEPT !.breakoutInProgress = FALSE]

\* A throwing listener does not end the dispatch: the throw does not reach the
\* caller and the invocations are the ones made when the listener returns.
throwIsolated ==
  listenerThrew =>
    /\ ~dispatch.propagated
    /\ dispatch.errors = invocationsOf("fail")
    /\ stateAsAssigned

\* Every listener registered after the first throwing one, for the type of the
\* event emitted, was invoked.
laterListenersInvoked ==
  \A e \in 1 .. Len(emitted) :
    LET callbacks == call.listeners[emitted[e].type]
    IN \A i \in 1 .. Len(callbacks) :
         callbacks[i] = "fail" =>
           \A j \in i + 1 .. Len(callbacks) :
             invocationsOf(callbacks[j]) >=
               Cardinality({k \in 1 .. Len(callbacks) : callbacks[k] = callbacks[j]})

\* C14: when a listener throws during a dispatch the throw does not reach the
\* caller of the notify operation, every later listener of the event's type is
\* still invoked, and the notifier's flag, start price and throttle times are the
\* ones the operation assigns.
C14_ThrowDoesNotStopDispatch ==
  /\ throwIsolated
  /\ listenerThrew => laterListenersInvoked

\* ------------------------------------------------------------------ C19
\* |targetPrice - price| < |targetPrice| * perMille / 1000
closerThan(price, targetPrice, perMille) ==
  IF targetPrice >= price
  THEN 1000 * (targetPrice - price) < perMille * Abs(targetPrice)
  ELSE 1000 * (price - targetPrice) < perMille * Abs(targetPrice)

\* C19: on a step inside a breakout window with start signaled (before or on this
\* step) the engine calls notifyBreakoutCompletion exactly when the live price is
\* closer than 0.2 % to the recorded target; on a step outside the window with the
\* started flag set it calls it exactly when the price is closer than 0.5 %, and
\* the flag is clear after that step in either case.
C19_CompletionSignaledByDistance ==
  (lastOp = "update" /\ step.handled) =>
    /\ (step.inBreakout /\ (step.wasStarted \/ step.startCalled)) =>
         (step.completionCalled <=>
            closerThan(step.currentPrice, breakoutEvent[1].targetPrice, 2))
    /\ (~step.inBreakout /\ step.wasStarted) =>
         /\ step.completionCalled <=>
              closerThan(step.currentPrice, breakoutEvent[1].targetPrice, 5)
         /\ ~priceModel.hasNotifiedBreakoutStart

\* C19 witness: a step inside the window, start signaled on an earlier step, with
\* the price closer than 0.2 % to the target: completion is signaled and emitted.
C19_Witness ==
  /\ lastOp = "update" /\ step.handled
  /\ step.inBreakout /\ step.wasStarted
  /\ step.completionCalled
  /\ eventsOfType(emitted, "completion") # <<>>

\* C19 witness: the first step after the window with the flag set and the price
\* farther than 0.5 % from the target: no completion, flag cleared.
C19_WitnessExitFar ==
  /\ lastOp = "update" /\ step.handled
  /\ ~step.inBreakout /\ step.wasStarted
  /\ ~step.completionCalled
  /\ ~priceModel.hasNotifiedBreakoutStart

\* C19 witness: the first step after the window with the price closer than 0.5 %
\* but not closer than 0.2 % to the target: completion signaled, flag cleared.
C19_WitnessExitNear ==
  /\ lastOp = "update" /\ step.handled
  /\ ~step.inBreakout /\ step.wasStarted
  /\ step.completionCalled
  /\ ~closerThan(step.currentPrice, breakoutEvent[1].targetPrice, 2)

\* C19 witness: inside the window with start signaled and the price not closer
\* than 0.2 %, but closer than 0.5 %: no completion.
C19_WitnessInsideFar ==
  /\ lastOp = "update" /\ step.handled
  /\ step.inBreakout /\ step.wasStarted
  /\ ~step.completionCalled
  /\ closerThan(step.currentPrice, breakoutEvent[1].targetPrice, 5)

\* ------------------------------------------------------------------ C20
\* Steps made since the construction or the last reset, counted up to 2*window+1.
stepsMade == Len(pushed)

\* C20: once more than window steps were made since the construction or the last
\* reset, pivotBid and pivotAsk are the bid and ask pushed window steps before the
\* latest push; up to window steps they are the scenario's starting bid and ask.
C20_PivotQuoteLagsByWindow ==
  (priceModel # <<>>) =>
    IF stepsMade > priceModel.window
    THEN /\ priceModel.pivotBid = pushed[stepsMade - priceModel.window].bid
         /\ priceModel.pivotAsk = pushed[stepsMade - priceModel.window].ask
    ELSE /\ priceModel.pivotBid = priceModel.scenario.startPrice
         /\ priceModel.pivotAsk =
              priceModel.scenario.startPrice + priceModel.scenario.spread.base

\* C20 witness: more than window steps made, the entry pushed window steps ago
\* differing from the latest one and from the starting quote.
C20_Witness ==
  /\ priceModel # <<>>
  /\ lastOp = "update"
  /\ priceModel.window > 0
  /\ stepsMade > priceModel.window
  /\ pushed[stepsMade - priceModel.window].bid # pushed[stepsMade].bid
  /\ pushed[stepsMade - priceModel.window].bid # priceModel.scenario.startPrice
  /\ priceModel.pivotBid = pushed[stepsMade - priceModel.window].bid

\* C20 witness: at most window steps made, the pushed entries differing from the
\* starting quote, which the pivot quote still shows.
C20_WitnessEarly ==
  /\ priceModel # <<>>
  /\ lastOp = "update"
  /\ stepsMade > 0 /\ stepsMade <= priceModel.window
  /\ pushed[stepsMade].bid # priceModel.scenario.startPrice
  /\ priceModel.pivotBid = priceModel.scenario.startPrice

\* ------------------------------------------------------------------ C21
\* C21: an update() whose generator step produced no tick pushes an entry with
\* the bid, ask and mid of the entry pushed by the step before it (the newest
\* entry of the buffer before the call) and leaves bestBid, bestAsk and
\* lastExchangeQuotes as they were.
C21_EmptyStepRepeatsLastEntry ==
  [][(lastOp' = "update" /\ step'.ticks = <<>>) =>
       /\ Last(priceModel'.buffer) = Last(priceModel.buffer)
       /\ Last(pushed').bid = Last(priceModel.buffer).bid
       /\ Last(pushed').ask = Last(priceModel.buffer).ask
       /\ priceModel'.bestBid = priceModel.bestBid
       /\ priceModel'.bestAsk = priceModel.bestAsk
       /\ priceModel'.lastExchangeQuotes = priceModel.lastExchangeQuotes]_vars

\* C21 witness: a step without ticks after a step whose tick moved the quote
\* away from the starting one.
C21_Witness ==
  /\ lastOp = "update"
  /\ step.ticks = <<>>
  /\ Len(pushed) >= 2
  /\ pushed[Len(pushed)] = pushed[Len(pushed) - 1]
  /\ Last(pushed).bid # priceModel.scenario.startPrice
  /\ priceModel.bestBid = Last(pushed).bid
  /\ priceModel.lastExchangeQuotes # <<>>

\* ------------------------------------------------------------------ C22
\* The buffer holds exactly 2*window+1 entries.
bufferAtCapacity == Len(priceModel.buffer) = 2 * priceModel.window + 1

\* An update() drops the oldest entry and appends one: the entries kept are the
\* former ones but the oldest, in the same order.
bufferShiftsByOne ==
  lastOp' = "update" =>
    /\ Len(priceModel'.buffer) = Len(priceModel.buffer)
    /\ SubSeq(priceModel'.buffer, 1, Len(priceModel'.buffer) - 1) = Tail(priceModel.buffer)
    /\ Last(priceModel'.buffer).bid = Last(pushed').bid
    /\ Last(priceModel'.buffer).ask = Last(pushed').ask

\* C22: in every engine state, after construction, update() and
\* resetWithScenario(), the buffer holds exactly 2*window+1 entries, and each
\* update() appends one entry and drops exactly the oldest, keeping the others in
\* push order.
C22_BufferKeepsCapacity == []bufferAtCapacity /\ [][bufferShiftsByOne]_vars

\* C22 witness: two updates that pushed different entries into a buffer at
\* capacity, the older of the two one place before the newer.
C22_Witness ==
  /\ lastOp = "update"
  /\ bufferAtCapacity
  /\ Len(pushed) >= 2
  /\ pushed[Len(pushed)].bid # pushed[Len(pushed) - 1].bid
  /\ priceModel.buffer[Len(priceModel.buffer)].bid = pushed[Len(pushed)].bid
  /\ priceModel.buffer[Len(priceModel.buffer) - 1].bid = pushed[Len(pushed) - 1].bid

\* ------------------------------------------------------------------ generator claims
sampledTick == lastOp = "sampleTick"
sampledKey == <<sample.regime[1], sample.regime[2], sample.sign>>
keyAbsent == sampledKey \notin DOMAIN quoteModel.transition
bucketEmpty == ~keyAbsent /\ quoteModel.transition[sampledKey] = <<>>
neutralTick == [dp |-> 0, spread |-> 10, size |-> 100]

\* C23: sampleTick returns exactly { priceDelta 0, spread 0.01, size 100 } when
\* the model has no bucket set under the regime-and-sign key or has an empty one;
\* on the empty model every sampleTick returns it.
C23_FallbackTickWithoutBuckets ==
  sampledTick =>
    /\ (keyAbsent \/ bucketEmpty) => sample.result = << neutralTick >>
    /\ quoteModel = emptyQuoteModel => sample.result = << neutralTick >>

\* sampleTick on an empty bucket set.
C23_Witness == sampledTick /\ bucketEmpty /\ sample.result = << neutralTick >>

\* sampleTick on a key the data file lacks, beside keys it has.
C23_WitnessAbsent ==
  sampledTick /\ keyAbsent /\ quoteModel = sparseQuoteModel
    /\ sample.result = << neutralTick >>

\* sampleTick on the empty model.
C23_WitnessEmptyModel ==
  sampledTick /\ quoteModel = emptyQuoteModel /\ sample.result = << neutralTick >>

RECURSIVE totalWeight(_)
totalWeight(entries) ==
  IF entries = <<>> THEN 0
  ELSE entries[1].weight + totalWeight(Tail(entries))

zeroTotalWeight ==
  /\ ~keyAbsent
  /\ ~bucketEmpty
  /\ totalWeight(quoteModel.transition[sampledKey]) = 0

\* C24: with a non-empty bucket set whose weights add up to zero, sampleTick
\* returns the neutral fallback tick.
C24_ZeroWeightGivesFallback ==
  (sampledTick /\ zeroTotalWeight) => sample.result = << neutralTick >>

poissonReturned == ~poisson.active /\ poisson.result # <<>>

\* ticks / secs of the regime of the last sampleNbUpdates is 0: the regime has no
\* entry in ticksPerRegime, or the entry 0.
rateZero ==
  \/ poisson.regime \notin DOMAIN quoteModel.ticksPerRegime
  \/ quoteModel.ticksPerRegime[poisson.regime] = 0

poissonResultIsCount ==
  poissonReturned =>
    /\ poisson.result[1] \in Nat
    /\ rateZero => poisson.result[1] = 0

\* C25: for any model and any regime, also one absent from the rate tables,
\* sampling the update count terminates and returns a nonnegative integer; for
\* rate 0 it returns 0.
C25_UpdateCountTerminates ==
  /\ []poissonResultIsCount
  /\ (poisson.active ~> poissonReturned)

\* The loop ended after several passes, exp(-lambda) being 0.
C25_Witness ==
  /\ poissonReturned
  /\ poisson.regime = <<"H", "O">>
  /\ poisson.L = 0
  /\ poisson.result[1] >= 2

\* The loop ended after its first pass for a regime the rate tables lack.
C25_WitnessAbsent ==
  /\ poissonReturned
  /\ poisson.regime \notin DOMAIN quoteModel.ticksPerRegime
  /\ poisson.regime \notin DOMAIN quoteModel.secondsPerRegime
  /\ poisson.k = 1
  /\ poisson.result = <<0>>

\* The loop ended with a count above 0 for a rate below 1.
C25_WitnessCount ==
  /\ poissonReturned
  /\ poisson.L \in 1 .. PLevels - 1
  /\ poisson.result[1] > 0

steppedSecond == lastOp = "stepSecond"
towardTarget == steppedSecond /\ sample.targetPrice # <<>>

\* The generator's bid before sub-update i of the last stepSecond.
RECURSIVE bidBefore(_)
bidBefore(i) == IF i = 1 THEN sample.before.bid ELSE bidBefore(i - 1) + sample.result[i - 1].dp

distanceBefore(i) == sample.targetPrice[1] - bidBefore(i)

\* |target - current| < 0.001 * current
withinTenthPercent(i) == Abs(distanceBefore(i)) * 1000 < bidBefore(i)

\* C26: when the target is within 0.1 % of the current bid, the delta applied is
\* the sampled delta itself.
C26_NoBiasNearTarget ==
  towardTarget =>
    \A i \in 1 .. Len(sample.result) :
      withinTenthPercent(i) => sample.result[i].dp = sample.result[i].sampled.dp

\* A move of 4 cents down sampled 0.09 % under the target and applied as it is.
C26_Witness ==
  /\ towardTarget
  /\ Len(sample.result) >= 1
  /\ withinTenthPercent(1)
  /\ distanceBefore(1) # 0
  /\ sample.result[1].sampled.dp = -40
  /\ sample.result[1].dp = -40

\* The blend of sub-update i, its factors held as in biasTowardTarget.
blendOf(i) ==
  LET current == bidBefore(i)
      distance == distanceBefore(i)
      factor == biasFactor(current, distance)
      magnitude == stepSize(distance)
      direction == IF distance > 0 THEN 1 ELSE IF distance < 0 THEN -1 ELSE 0
  IN [factor |-> factor, magnitude |-> magnitude, direction |-> direction,
      current |-> current,
      directed |-> factor * direction * magnitude,
      delta |-> roundDiv(factor * direction * magnitude
                           + (10 * current - factor) * 10 * sample.result[i].sampled.dp,
                         100 * current)]

\* C27: off the 0.1 % band the delta applied is
\*   biasFactor * (direction * stepMagnitude) + (1 - biasFactor) * modelDelta
\* with 0 <= biasFactor <= 0.7, 0 <= stepMagnitude <= 0.05 and direction the sign
\* of target - current; the target-directed part is at most 0.035.
C27_BlendIsBounded ==
  towardTarget =>
    \A i \in 1 .. Len(sample.result) :
      ~withinTenthPercent(i) =>
        /\ sample.result[i].dp = blendOf(i).delta
        /\ 0 <= blendOf(i).factor
        /\ blendOf(i).factor <= 7 * blendOf(i).current
        /\ 0 <= blendOf(i).magnitude
        /\ blendOf(i).magnitude <= 500
        /\ Abs(blendOf(i).directed) <= 35 * 100 * blendOf(i).current

\* A sampled move blended with the largest target-directed part, 0.7 * 0.05.
C27_Witness ==
  /\ towardTarget
  /\ Len(sample.result) >= 1
  /\ ~withinTenthPercent(1)
  /\ sample.result[1].sampled.dp # 0
  /\ sample.result[1].dp # sample.result[1].sampled.dp
  /\ blendOf(1).directed = 35 * 100 * blendOf(1).current

\* A sampled move blended with a factor below 0.7 and a step below 0.05, downward.
C27_WitnessPartial ==
  /\ towardTarget
  /\ \E i \in 1 .. Len(sample.result) :
       /\ ~withinTenthPercent(i)
       /\ blendOf(i).direction = -1
       /\ 0 < blendOf(i).factor
       /\ blendOf(i).factor < 7 * blendOf(i).current
       /\ blendOf(i).magnitude < 500
       /\ sample.result[i].sampled.dp # 0

\* ------------------------------------------------------------------ C28
\* A listener called off() during the last dispatch.
offDuringDispatch ==
  \E i \in 1 .. Len(dispatch.log) : dispatch.log[i].callback = "once"

\* The registrations of a callback, when the call began, for the types of the
\* events the call emitted.
registrationsOf(callback) ==
  LET count[e \in 0 .. Len(emitted)] ==
        IF e = 0 THEN 0
        ELSE count[e - 1]
               + Cardinality({k \in 1 .. Len(call.listeners[emitted[e].type]) :
                                call.listeners[emitted[e].type][k] = callback})
  IN count[Len(emitted)]

\* C28: when a listener calls off() during the dispatch of an event, every other
\* listener registered when the dispatch began is still invoked exactly once.
C28_DispatchOverSnapshot ==
  offDuringDispatch =>
    \A callback \in Callbacks \ {"once"} :
      invocationsOf(callback) = registrationsOf(callback)

\* ------------------------------------------------------------------ C29
\* The sign sub-update i of the last stepSecond is to sample with.
signFor(i) ==
  IF i = 1 THEN sample.sign
  ELSE IF sample.result[i - 1].dp > 0 THEN "U"
       ELSE IF sample.result[i - 1].dp < 0 THEN "D" ELSE "F"

\* C29: in one stepSecond the first sub-update samples with the caller's sign and
\* each later one with the sign of the delta the previous sub-update applied (U
\* if positive, D if negative, F if zero); the ticks are in sub-update order, tick
\* i quoting the bid after the first i deltas.
C29_SignFollowsAppliedDelta ==
  steppedSecond =>
    \A i \in 1 .. Len(sample.result) :
      /\ sample.result[i].sampled \in sampleTick(quoteModel, sample.regime, signFor(i))
      /\ sample.result[i].priceBid \in roundCents(bidBefore(i) + sample.result[i].dp)

\* A sampled move down was applied as a move up, and the next sub-update sampled
\* from the bucket set of U, which the one of D does not share.
C29_Witness ==
  /\ steppedSecond
  /\ Len(sample.result) >= 2
  /\ sample.sign = "F"
  /\ sample.result[1].sampled.dp < 0
  /\ sample.result[1].dp > 0
  /\ sample.result[2].sampled \in sampleTick(quoteModel, sample.regime, "U")
  /\ sample.result[2].sampled \notin sampleTick(quoteModel, sample.regime, "D")
  /\ sample.result[2].sampled \notin sampleTick(quoteModel, sample.regime, "F")
  /\ sample.result[1].priceBid # sample.result[2].priceBid

\* ------------------------------------------------------------------ C30
\* The gradual policy: 10 s + 5 s per percent, within 8 s and 30 s, in ticks for a
\* magnitude in steps of 0.5 %.
gradualDuration(magnitudeSteps) ==
  LET raw == 20 + 5 * magnitudeSteps
  IN IF raw < 16 THEN 16 ELSE IF raw > 60 THEN 60 ELSE raw

breakoutSegment(segment, startTime, endTime, targetPrice) ==
  /\ segment.regime = <<"N", "B">>
  /\ segment.startTime = startTime
  /\ segment.endTime = endTime
  /\ segment.targetPrice = << targetPrice >>

\* The timeline holds the outward segment of the fake, started in its window, and
\* after it the reversal segment that starts where the outward one ends.
fakeContributes(tl, fake, startPrice) ==
  \E s \in fake.timeWindow[1] .. fake.timeWindow[2] :
    \E i \in 1 .. Len(tl) :
      \E j \in i + 1 .. Len(tl) :
        /\ breakoutSegment(tl[i], s, s + gradualDuration(Abs(fake.magnitude)),
                           startPrice + ((startPrice * fake.magnitude) \div 200))
        /\ breakoutSegment(tl[j], s + gradualDuration(Abs(fake.magnitude)),
                           s + gradualDuration(Abs(fake.magnitude)) + fake.reversalSpeed,
                           startPrice)

allFakesContribute(tl, scenario) ==
  \A f \in 1 .. Len(scenario.advanced.fakeBreakouts) :
    fakeContributes(tl, scenario.advanced.fakeBreakouts[f], scenario.startPrice)

\* The BreakoutEvent after schedule(scenario) is the one held before, or a record
\* of the scenario's primary breakout.
eventOfPrimaryOnly(before, after, scenario) ==
  IF scenario.breakout.type = "none"
  THEN after = before
  ELSE /\ after # <<>>
       /\ after[1].type = scenario.breakout.type
       /\ after[1].speed = scenario.breakout.speed
       /\ after[1].startTime \in
            scenario.breakout.timeWindow[1] .. scenario.breakout.timeWindow[2]
       /\ after[1].targetPrice =
            scenario.startPrice + ((scenario.startPrice * scenario.breakout.magnitude) \div 200)

\* C30: schedule() gives each fake breakout an outward Breakout segment [s, s + G)
\* with target startPrice * (1 + magnitude/100), s in the fake's window and G the
\* gradual duration for |magnitude|, and a reversal Breakout segment that starts
\* at s + G, lasts reversalSpeed and targets the start price; the BreakoutEvent
\* is not made from a fake.
C30_FakeBreakoutHasOutwardAndReversal ==
  [][lastOp' = "schedule" =>
       /\ allFakesContribute(timeline', schedScenario'[1])
       /\ eventOfPrimaryOnly(breakoutEvent, breakoutEvent', schedScenario'[1])]_vars

\* Two fakes and a primary breakout scheduled: four fake segments and the
\* primary's record.
C30_Witness ==
  /\ lastOp = "schedule"
  /\ Len(schedScenario[1].advanced.fakeBreakouts) = 2
  /\ schedScenario[1].breakout.type # "none"
  /\ allFakesContribute(timeline, schedScenario[1])
  /\ breakoutEvent # <<>>
  /\ breakoutEvent[1].type = schedScenario[1].breakout.type
  /\ Cardinality({i \in 1 .. Len(timeline) : timeline[i].description = "Fake breakout"}) = 4

\* Fakes scheduled without a primary breakout: no BreakoutEvent.
C30_WitnessNoEvent ==
  /\ lastOp = "schedule"
  /\ Len(schedScenario[1].advanced.fakeBreakouts) >= 1
  /\ schedScenario[1].breakout.type = "none"
  /\ allFakesContribute(timeline, schedScenario[1])
  /\ breakoutEvent = <<>>

\* The reversal segment directly follows the outward one in the timeline.
C30_WitnessAdjacent ==
  /\ lastOp = "schedule"
  /\ Len(schedScenario[1].advanced.fakeBreakouts) = 1
  /\ \E i \in 1 .. Len(timeline) - 1 :
       /\ timeline[i].description = "Fake breakout"
       /\ timeline[i + 1].description = "Fake breakout"
       /\ timeline[i + 1].startTime = timeline[i].endTime
       /\ timeline[i + 1].targetPrice = << schedScenario[1].startPrice >>

\* ------------------------------------------------------------------ C31
\* The target prices of the events of a scenario: the fakes' targets, the start
\* price (the reversals) and the primary's target.
eventTargets(scenario) ==
  { scenario.startPrice + ((scenario.startPrice * scenario.advanced.fakeBreakouts[f].magnitude)
                             \div 200)
      : f \in 1 .. Len(scenario.advanced.fakeBreakouts) }
  \cup (IF scenario.advanced.fakeBreakouts # <<>> THEN { scenario.startPrice } ELSE {})
  \cup (IF scenario.breakout.type # "none"
        THEN { scenario.startPrice
                 + ((scenario.startPrice * scenario.breakout.magnitude) \div 200) }
        ELSE {})

isEventSegment(segment, scenario) ==
  /\ segment.regime = <<"N", "B">>
  /\ segment.targetPrice # <<>>
  /\ segment.targetPrice[1] \in eventTargets(scenario)
  /\ segment.sign = (IF segment.targetPrice[1] > scenario.startPrice THEN "U" ELSE "D")

isRangingSegment(segment) ==
  /\ segment.regime = <<"N", "O">>
  /\ segment.sign = "F"
  /\ segment.targetPrice = <<>>

\* C31: in every scheduled timeline an event segment has regime (Normal,
\* Breakout), the target price of its event, and sign Up if the target exceeds the
\* start price and Down otherwise; a ranging segment has regime (Normal, Outside),
\* sign Flat and no target price.
C31_SegmentAttributes ==
  scheduled =>
    \A i \in 1 .. Len(timeline) :
      IF timeline[i].description \in {"Ranging period", "Post-breakout ranging"}
      THEN isRangingSegment(timeline[i])
      ELSE isEventSegment(timeline[i], schedScenario[1])

\* A timeline with a ranging segment, an upward segment, a downward segment of a
\* target below the start price and a reversal segment, whose sign is Down.
C31_Witness ==
  /\ scheduled
  /\ \E i \in 1 .. Len(timeline) : isRangingSegment(timeline[i])
  /\ \E i \in 1 .. Len(timeline) :
       timeline[i].sign = "U" /\ timeline[i].targetPrice[1] > schedScenario[1].startPrice
  /\ \E i \in 1 .. Len(timeline) :
       timeline[i].sign = "D" /\ timeline[i].targetPrice[1] < schedScenario[1].startPrice
  /\ \E i \in 1 .. Len(timeline) :
       timeline[i].sign = "D" /\ timeline[i].targetPrice = << schedScenario[1].startPrice >>

\* ------------------------------------------------------------------ C32
\* The timeline and BreakoutEvent are those a fresh scheduler derives from the
\* scenario with some draws.
asOnFreshScheduler(tl, event, scenario) ==
  \E r \in mainDraws(scenario), fr \in fakeDraws(scenario) :
    /\ event = scheduleBreakoutEvent(<<>>, scenario, r)
    /\ tl = scheduleTimeline(scenario, scheduleBreakoutEvent(<<>>, scenario, r), fr)

\* C32: after schedule(s), whatever was scheduled before and with or without a
\* reset() in between, the timeline and getBreakoutEvent() are those of a fresh
\* scheduler given s and the same draws; getBreakoutEvent() and
\* getTimeUntilBreakout() are null when s.breakout.type is none.
C32_ScheduleReplacesState ==
  [][lastOp' = "schedule" =>
       /\ asOnFreshScheduler(timeline', breakoutEvent', schedScenario'[1])
       /\ schedScenario'[1].breakout.type = "none" =>
            /\ breakoutEvent' = <<>>
            /\ getTimeUntilBreakout(breakoutEvent', 0) = <<>>]_vars

\* ------------------------------------------------------------------ C33
\* startEvents counts the start events since the last completion event or
\* reset(): at most one start is open.
oneStartOpen == startEvents <= 1

\* A call emits a progress or a completion event only with a start event before
\* it and no completion or reset() since; a completion then closes that start.
followsOpenStart ==
  (notifierVars' # notifierVars
     /\ \E i \in 1 .. Len(emitted') : emitted'[i].type \in {"progress", "completion"}) =>
    /\ startEvents = 1
    /\ (\E i \in 1 .. Len(emitted') : emitted'[i].type = "completion") => startEvents' = 0
    /\ Len(emitted') = 1

\* C33: in the events a notifier emits under any sequence of its calls, two start
\* events have a completion event or a reset() between them, every progress and
\* completion event follows a start event with no completion or reset() in
\* between, and so the completion events, each closing its own start, are never
\* more than the start events.
C33_EventsFollowStart == []oneStartOpen /\ [][followsOpenStart]_vars

\* A completion event closes a start after which progress was reported.
C33_Witness ==
  /\ lastOp = "notifyBreakoutCompletion"
  /\ Len(emitted) = 1
  /\ emitted[1].type = "completion"
  /\ startEvents = 0
  /\ progressHist.last # <<>>
  /\ progressHist.startPrice # <<>>

\* A second start event, after a completion event.
C33_WitnessRestart ==
  /\ lastOp = "notifyBreakoutStart"
  /\ Len(emitted) = 1
  /\ emitted[1].type = "start"
  /\ startEvents = 1
  /\ call.pre.breakoutStartPrice # 0
  /\ ~call.resetPending

\* ------------------------------------------------------------------ C34
\* The target price of the segment active at the last step (<<>> if it has none).
activeTarget == getCurrentRegime(timeline, priceModel.elapsedTime).targetPrice

\* C34: every start, progress and completion event the engine emits on a step
\* carries the target price of the timeline segment active at that step (of a
\* fake or reversal segment its own target), and a completion inside a breakout
\* segment is decided against that target.
C34_EventsCarryActiveTarget ==
  lastOp = "update" =>
    /\ \A i \in 1 .. Len(emitted) :
         emitted[i].type \in {"start", "progress", "completion"} =>
           emitted[i].targetPrice = activeTarget
    /\ (step.handled /\ step.inBreakout /\ activeTarget # <<>>) =>
         (step.completionCalled <=> closerThan(step.currentPrice, activeTarget[1], 2))

\* ------------------------------------------------------------------ C35
\* The segment of the primary breakout in the timeline.
primarySegments ==
  { i \in 1 .. Len(timeline) :
      timeline[i].description \in {"Main bullish breakout", "Main bearish breakout"} }

\* C35: for every scenario createScenarioForLevel makes, the scheduled primary
\* breakout moves as its type names: bullish gives a target above the start price
\* and segment sign Up, bearish a target below it and segment sign Down.
C35_LevelScenarioMovesAsNamed ==
  (lastOp = "schedule" /\ schedScenario[1] \in AppScenarios) =>
    /\ breakoutEvent # <<>>
    /\ primarySegments # {}
    /\ breakoutEvent[1].type = "bullish" =>
         /\ breakoutEvent[1].targetPrice > schedScenario[1].startPrice
         /\ \A i \in primarySegments : timeline[i].sign = "U"
    /\ breakoutEvent[1].type = "bearish" =>
         /\ breakoutEvent[1].targetPrice < schedScenario[1].startPrice
         /\ \A i \in primarySegments : timeline[i].sign = "D"

\* ------------------------------------------------------------------ C36
onEmptyModel == quoteModel = emptyQuoteModel /\ priceModel # <<>>

\* The quotes of the engine are the scenario's starting ones.
quotesAtStart ==
  /\ priceModel.bestBid = priceModel.scenario.startPrice
  /\ priceModel.bestAsk = priceModel.scenario.startPrice + priceModel.scenario.spread.base
  /\ \A i \in 1 .. Len(priceModel.buffer) :
       /\ priceModel.buffer[i].bid = priceModel.scenario.startPrice
       /\ priceModel.buffer[i].ask =
            priceModel.scenario.startPrice + priceModel.scenario.spread.base

\* The last step was the first one inside a breakout segment of a scenario with a
\* primary breakout.
enteredBreakout ==
  /\ lastOp = "update"
  /\ priceModel.scenario.breakout.type # "none"
  /\ step.inBreakout
  /\ ~step.prevInBreakout

startEmitted == \E i \in 1 .. Len(emitted) : emitted[i].type = "start"

emptyModelKeepsQuotes ==
  onEmptyModel =>
    /\ lastOp = "update" => step.ticks = <<>>
    /\ quotesAtStart

\* C36: on an empty model every step produces no tick, so bestBid, bestAsk and
\* every buffer entry stay at the scenario's starting values, also inside a
\* breakout segment with a target price; a start event is still emitted when a
\* breakout window is entered.
C36_EmptyModelStaysAtStart ==
  /\ emptyModelKeepsQuotes
  /\ (onEmptyModel /\ enteredBreakout) => startEmitted

\* ------------------------------------------------------------------ C37
\* The step is a resetWithScenario.
resetStep == lastOp' = "resetWithScenario" /\ call' # call

resetKeepsFrame ==
  resetStep =>
    /\ listeners' = listeners
    /\ priceModel'.window = priceModel.window
    /\ priceModel'.maxBufferSize = priceModel.maxBufferSize
    /\ priceModel'.lastExchangeQuotes = priceModel.lastExchangeQuotes

\* A step of the engine delivers the start event it emits to the listeners of
\* start, and replaces lastExchangeQuotes only when it produced a tick.
stepKeepsQuotesAndDelivers ==
  lastOp' = "update" =>
    /\ step'.ticks = <<>> => priceModel'.lastExchangeQuotes = priceModel.lastExchangeQuotes
    /\ step'.ticks # <<>> => priceModel'.lastExchangeQuotes = << Last(step'.ticks) >>
    /\ (\E i \in 1 .. Len(emitted') : emitted'[i].type = "start") =>
         Len(SelectSeq(dispatch'.log, LAMBDA d : d.type = "start")) = Len(listeners["start"])

\* C37: resetWithScenario leaves the notifier's listeners registered (they
\* receive the events of the new scenario), the window and the buffer capacity as
\* they were, and lastExchangeQuotes, which holds the previous scenario's last
\* quotes until a step of the new scenario produces a tick.
C37_ResetKeepsListenersAndQuotes ==
  [][resetKeepsFrame /\ stepKeepsQuotesAndDelivers]_vars

\* A reset after a step that produced a tick away from the new starting price,
\* with a listener registered.
C37_Witness ==
  /\ lastOp = "resetWithScenario"
  /\ priceModel.lastExchangeQuotes # <<>>
  /\ priceModel.lastExchangeQuotes[1].priceBid # priceModel.scenario.startPrice
  /\ priceModel.bestBid = priceModel.scenario.startPrice
  /\ listeners["start"] # <<>>

\* A listener registered before the reset receives the start event of the new
\* scenario.
C37_WitnessDelivered ==
  /\ lastOp = "update"
  /\ priceModel.startTime > 0
  /\ startEmitted
  /\ \E i \in 1 .. Len(dispatch.log) : dispatch.log[i].type = "start"
\* ------------------------------------------------------------------ C38
\* Every tick of the last update() has the same size on both sides.
ticksSplitEvenly ==
  lastOp = "update" =>
    \A i \in 1 .. Len(step.ticks) : step.ticks[i].sizeBid = step.ticks[i].sizeAsk

\* The mid pushed by an update() with ticks is (bid + ask) / 2 of the generator's
\* running bid and ask.
pushedMidIsMean ==
  (lastOp = "update" /\ Len(step.ticks) > 0) =>
    Last(priceModel.buffer).mid = 4 * (generator.bid + generator.ask)

\* C38: every tick has the same bid and ask size, so the size-weighted mid that
\* update() pushes equals the arithmetic mean of the generator's running bid and
\* ask, whether the sizes are zero or not.
C38_WeightedMidIsMean == ticksSplitEvenly /\ pushedMidIsMean
\* ------------------------------------------------------------------ C39
\* No loadModel call is waiting, and xp changed since the App mounted.
allLoadsSettled == app.started > 1 /\ app.pending = {}

\* The PriceModel the game loop steps was made by the last loadModel call, for the
\* xp of the last render.
activeModelIsLatest ==
  /\ app.priceModel # <<>>
  /\ app.priceModel[1].load = app.started
  /\ app.priceModel[1].xp = app.xp
  /\ app.priceModel[1].level = currentLevelIndex(app.xp) + 1

\* A PriceModel is never replaced by the one of an earlier loadModel call.
appliedInOrder ==
  (app.priceModel # <<>> /\ app'.priceModel # <<>>) =>
    app'.priceModel[1].load >= app.priceModel[1].load

\* C39: when xp changes while an earlier model load is pending, then once every
\* load has settled the active PriceModel is the one created for the latest xp,
\* and the results of loads are never applied out of order.
C39_LatestLoadWins ==
  [](allLoadsSettled => activeModelIsLatest) /\ [][appliedInOrder]_vars
====
